---- MODULE Spec2Model ----
(***************************************************************************)
(* Model of the chat client's Markdown renderer (src/script.js).           *)
(*                                                                         *)
(* A JavaScript string is a sequence of one-character strings.  Markup     *)
(* that the renderer itself inserts (tags such as <strong>, <p>, <br>) is  *)
(* written as one element holding the tag text: user text is HTML-escaped  *)
(* before it can meet markup, so no regular expression of the source can   *)
(* match part of such an element; the expressions that match tags match    *)
(* whole elements.  Join(s) is the JavaScript string a sequence stands     *)
(* for.  The placeholders __CODEBLOCK_i__, __INLINECODE_i__, __TABLE_i__   *)
(* are kept character by character, because later expressions and the     *)
(* user's own text can meet them.                                          *)
(***************************************************************************)
EXTENDS Integers, Sequences, FiniteSets, TLC

VARIABLES text, html, codeBlocks, inlineCodes, tables, pc, rendered

\* the storage tiers: the IndexedDB environment and handle, its object store,
\* the memoryStorage object, localStorage and whether it refuses writes, and
\* the log of the calls of getItem, setItem and removeItem
VARIABLES indexedDB, db, objectStore, memoryStorage, localStorage, storageFull, ops

\* the page: the connection flag, the generate button, the prompt box, the
\* conversation, the chats of chatHistory, the invocations of
\* sendMessage, the #output element, the log of the calls of the render
\* functions, the calls of the chat API, the pending auto-save timer and
\* what the page has written to storage
VARIABLES isOnline, disabled, prompt, conversation, chatHistory, sends, output,
          renders, chatCalls, saveTimeout, stored

renderVars == <<text, html, codeBlocks, inlineCodes, tables, pc, rendered>>
storeVars == <<indexedDB, db, objectStore, memoryStorage, localStorage, storageFull, ops>>
pageVars == <<isOnline, disabled, prompt, conversation, chatHistory, sends, output,
              renders, chatCalls, saveTimeout, stored>>

\* the chats: the id of the current chat (NoChat for null), the number
\* generateChatId gives next, the last call of a function whose result a
\* property speaks of, and the handlers suspended at an await on the storage
VARIABLES currentChatId, nextChatId, lastCall, pending

chatVars == <<currentChatId, nextChatId, lastCall, pending>>

\* the timers autoSave has made, in the order it made them, with the time
\* each was set and what became of it, and the time in ticks
VARIABLES timers, now

timeVars == <<timers, now>>

vars == <<renderVars, storeVars, pageVars, chatVars, timeVars>>

(***************************************************************************)
(* Characters and character classes                                        *)
(***************************************************************************)
NL == "\n"
\* the backtick character (a string literal cannot hold one)
Tick == "{BACKTICK}"
\* \s restricted to the whitespace the inputs are drawn from
WS == {" ", NL}
Digits == {"0", "1", "2", "3", "4", "5", "6", "7", "8", "9"}
LowerLetters ==
  {"a", "b", "c", "d", "e", "f", "g", "h", "i", "j", "k", "l", "m",
   "n", "o", "p", "q", "r", "s", "t", "u", "v", "w", "x", "y", "z"}
UpperLetters ==
  {"A", "B", "C", "D", "E", "F", "G", "H", "I", "J", "K", "L", "M",
   "N", "O", "P", "Q", "R", "S", "T", "U", "V", "W", "X", "Y", "Z"}
\* [a-zA-Z0-9_+\-.#]
LangChars == LowerLetters \cup UpperLetters \cup Digits \cup {"_", "+", "-", ".", "#"}
\* [\s\-:|]
SeparatorChars == WS \cup {"-", ":", "|"}

toLowerCaseChar(c) ==
  CASE c = "A" -> "a" [] c = "B" -> "b" [] c = "C" -> "c" [] c = "D" -> "d"
    [] c = "E" -> "e" [] c = "F" -> "f" [] c = "G" -> "g" [] c = "H" -> "h"
    [] c = "I" -> "i" [] c = "J" -> "j" [] c = "K" -> "k" [] c = "L" -> "l"
    [] c = "M" -> "m" [] c = "N" -> "n" [] c = "O" -> "o" [] c = "P" -> "p"
    [] c = "Q" -> "q" [] c = "R" -> "r" [] c = "S" -> "s" [] c = "T" -> "t"
    [] c = "U" -> "u" [] c = "V" -> "v" [] c = "W" -> "w" [] c = "X" -> "x"
    [] c = "Y" -> "y" [] c = "Z" -> "z" [] OTHER -> c

toLowerCase(s) == [k \in 1..Len(s) |-> toLowerCaseChar(s[k])]

\* null and undefined, told apart from every string
Null == <<"#null">>
Undefined == <<"#undefined">>
\* !text
Falsy(v) == v = <<>> \/ v = Null \/ v = Undefined

(***************************************************************************)
(* String helpers                                                          *)
(***************************************************************************)
Min(S) == CHOOSE x \in S : \A y \in S : x <= y
Max(S) == CHOOSE x \in S : \A y \in S : y <= x

\* the JavaScript string a sequence of characters and tags stands for
RECURSIVE Join(_)
Join(s) ==
  IF s = <<>> THEN ""
  ELSE IF Len(s) = 1 THEN s[1]
  ELSE Join(SubSeq(s, 1, Len(s) \div 2)) \o Join(SubSeq(s, Len(s) \div 2 + 1, Len(s)))

\* concatenation of a sequence of sequences
RECURSIVE Flatten(_)
Flatten(ss) ==
  IF ss = <<>> THEN <<>>
  ELSE IF Len(ss) = 1 THEN ss[1]
  ELSE Flatten(SubSeq(ss, 1, Len(ss) \div 2))
         \o Flatten(SubSeq(ss, Len(ss) \div 2 + 1, Len(ss)))

\* the character at i, "" outside the string
At(s, i) == IF i >= 1 /\ i <= Len(s) THEN s[i] ELSE ""

IsAt(s, i, pat) ==
  /\ i >= 1
  /\ i + Len(pat) - 1 <= Len(s)
  /\ \A k \in 1..Len(pat) : s[i + k - 1] = pat[k]

\* first index >= i where pat starts, 0 when there is none
FindFrom(s, i, pat) ==
  LET at == {j \in i..(Len(s) - Len(pat) + 1) : IsAt(s, j, pat)}
  IN IF at = {} THEN 0 ELSE Min(at)

Contains(s, pat) == FindFrom(s, 1, pat) # 0

\* last index of the run of characters of C that starts at i (i-1: empty run)
RunEnd(s, i, C) ==
  LET stop == {j \in i..Len(s) : s[j] \notin C}
  IN IF stop # {} THEN Min(stop) - 1
     ELSE IF i > Len(s) THEN i - 1 ELSE Len(s)

\* last index of the run of characters outside C that starts at i
RunEndNot(s, i, C) ==
  LET stop == {j \in i..Len(s) : s[j] \in C}
  IN IF stop # {} THEN Min(stop) - 1
     ELSE IF i > Len(s) THEN i - 1 ELSE Len(s)

\* greatest index in lo..hi holding c, 0 when there is none
LastIn(s, lo, hi, c) ==
  LET at == {j \in lo..hi : s[j] = c}
  IN IF at = {} THEN 0 ELSE Max(at)

\* String.prototype.trim
trim(s) ==
  LET a == RunEnd(s, 1, WS) + 1
      b == IF a > Len(s) THEN a - 1
           ELSE CHOOSE j \in a..Len(s) :
                  s[j] \notin WS /\ \A k \in (j + 1)..Len(s) : s[k] \in WS
  IN SubSeq(s, a, b)

\* String.prototype.split on one character
RECURSIVE split(_,_)
split(s, c) ==
  LET j == FindFrom(s, 1, <<c>>)
  IN IF j = 0 THEN <<s>>
     ELSE <<SubSeq(s, 1, j - 1)>> \o split(SubSeq(s, j + 1, Len(s)), c)

\* Array.prototype.join on one character
RECURSIVE join(_,_)
join(ss, c) ==
  IF ss = <<>> THEN <<>>
  ELSE IF Len(ss) = 1 THEN ss[1]
  ELSE ss[1] \o <<c>> \o join(Tail(ss), c)

\* decimal digits of n, as the template literal ${n} writes them
RECURSIVE ToDigits(_)
ToDigits(n) ==
  LET d == CHOOSE c \in Digits :
             \E k \in 0..9 : k = n % 10 /\ c = <<"0", "1", "2", "3", "4", "5", "6", "7", "8", "9">>[k + 1]
  IN IF n < 10 THEN <<d>> ELSE ToDigits(n \div 10) \o <<d>>

(***************************************************************************)
(* String.prototype.replace with a /g expression                           *)
(*                                                                         *)
(* A matcher M(s, i) says whether the expression matches at index i: it    *)
(* returns a record with  end  the last index matched (0: no match) and    *)
(* g1, g2 the captured groups.  FindAll is the scan of replace: leftmost   *)
(* match from the current index, then on from the end of that match.       *)
(***************************************************************************)
NoMatch == [end |-> 0, g1 |-> <<>>, g2 |-> <<>>]

RECURSIVE FindAll(_,_,_,_)
FindAll(s, i, M(_,_), acc) ==
  LET at == {j \in i..Len(s) : M(s, j).end # 0}
  IN IF at = {} THEN acc
     ELSE LET j == Min(at)
              m == M(s, j)
          IN FindAll(s, m.end + 1, M,
                     Append(acc, [start |-> j, end |-> m.end, g1 |-> m.g1, g2 |-> m.g2]))

\* s with match ms[k] replaced by reps[k], for every k from k0, text from `from`
RECURSIVE Splice(_,_,_,_,_)
Splice(s, ms, reps, k, from) ==
  IF k > Len(ms) THEN SubSeq(s, from, Len(s))
  ELSE SubSeq(s, from, ms[k].start - 1) \o reps[k]
         \o Splice(s, ms, reps, k + 1, ms[k].end + 1)

\* the text a match covers
Matched(s, m) == SubSeq(s, m.start, m.end)

\* replace(/re/g, replacement built from the groups)
ReplaceAll(s, M(_,_), R(_)) ==
  IF s = <<>> THEN <<>>
  ELSE LET ms == FindAll(s, 1, M, <<>>)
       IN Splice(s, ms, [k \in 1..Len(ms) |-> R(ms[k])], 1, 1)

(***************************************************************************)
(* escapeHtml                                                              *)
(***************************************************************************)
ReplaceChar(s, c, rep) ==
  Flatten([k \in 1..Len(s) |-> IF s[k] = c THEN rep ELSE <<s[k]>>])

EntAmp == <<"&", "a", "m", "p", ";">>
EntLt == <<"&", "l", "t", ";">>
EntGt == <<"&", "g", "t", ";">>
EntQuot == <<"&", "q", "u", "o", "t", ";">>
EntApos == <<"&", "#", "0", "3", "9", ";">>

\* the same replacements with & taken last instead of first
escapeHtmlAmpLast(t) ==
  IF Falsy(t) THEN <<>>
  ELSE ReplaceChar(ReplaceChar(ReplaceChar(ReplaceChar(ReplaceChar(t,
         "<", EntLt), ">", EntGt), "\"", EntQuot), "'", EntApos), "&", EntAmp)

escapeHtml(t) ==
  IF Falsy(t) THEN <<>>
  ELSE ReplaceChar(ReplaceChar(ReplaceChar(ReplaceChar(ReplaceChar(t,
         "&", EntAmp), "<", EntLt), ">", EntGt), "\"", EntQuot), "'", EntApos)

(***************************************************************************)
(* Placeholders                                                            *)
(***************************************************************************)
CODEBLOCK == <<"C", "O", "D", "E", "B", "L", "O", "C", "K">>
INLINECODE == <<"I", "N", "L", "I", "N", "E", "C", "O", "D", "E">>
TABLE == <<"T", "A", "B", "L", "E">>

\* `__KIND_${n}__`
Placeholder(kind, n) == <<"_", "_">> \o kind \o <<"_">> \o ToDigits(n) \o <<"_", "_">>

(***************************************************************************)
(* STEP 1a: fenced code blocks with a language                             *)
(*   /(```)([a-zA-Z0-9_+\-.#]+)\s*\n([\s\S]*?)\n?(```)/g                   *)
(***************************************************************************)
Fence == <<Tick, Tick, Tick>>

knownLanguages ==
  {"javascript", "js", "typescript", "ts", "python", "py", "java", "c", "cpp",
   "csharp", "cs", "php", "html", "css", "json", "xml", "sql", "bash", "sh",
   "yaml", "yml", "markdown", "md", "ruby", "rb", "go", "rust", "rs", "swift",
   "kotlin", "kt", "scala", "perl", "pl", "lua", "r", "matlab", "jsx", "tsx",
   "dart", "erlang", "elixir", "haskell", "clojure", "fsharp", "powershell",
   "shell", "dockerfile", "makefile", "cmake", "nginx", "apache", "diff",
   "ini", "toml", "graphql", "docker", "vim", "regex",
   "armasm", "avrasm", "actionscript", "ada", "applescript", "arduino",
   "coffeescript", "d", "delphi", "oxygene", "elm",
   "gcode", "golang", "groovy", "haml", "handlebars", "haxe",
   "julia", "latex", "less", "lisp", "livescript",
   "mathematica", "objectivec", "ocaml",
   "scheme", "scss", "tcl", "verilog",
   "vhdl", "text", "txt", "plain"}

\* the body a lazy ([\s\S]*?) followed by \n?(```) captures, from p up to the
\* closing fence at q: the newline right before the fence goes to \n?
FenceBody(s, p, q) ==
  SubSeq(s, p, IF q > p /\ s[q - 1] = NL THEN q - 2 ELSE q - 1)

\* g1 = lang, g2 = code
MatchFencedLang(s, i) ==
  IF ~IsAt(s, i, Fence) THEN NoMatch
  ELSE LET l1 == i + 3
           l2 == RunEnd(s, l1, LangChars)
           w2 == RunEnd(s, l2 + 1, WS)
           \* \s*\n: the greedy \s* gives back up to the last newline of the run
           nl == LastIn(s, l2 + 1, w2, NL)
           q  == FindFrom(s, nl + 1, Fence)
       IN IF l2 < l1 \/ nl = 0 \/ q = 0 THEN NoMatch
          ELSE [end |-> q + 2, g1 |-> SubSeq(s, l1, l2), g2 |-> FenceBody(s, nl + 1, q)]

\* (code || '').replace(/^\n+|\n+$/g, '')
cleanCode(code) ==
  LET a == RunEnd(code, 1, {NL}) + 1
      b == IF a > Len(code) THEN a - 1
           ELSE CHOOSE j \in a..Len(code) :
                  code[j] # NL /\ \A k \in (j + 1)..Len(code) : code[k] = NL
  IN SubSeq(code, a, b)

\* language && knownLanguages.includes(language.toLowerCase())
IsKnownLanguage(language) ==
  language # <<>> /\ Join(toLowerCase(language)) \in knownLanguages

RECURSIVE FencedLangFold(_,_,_,_,_)
FencedLangFold(s, ms, k, cb, reps) ==
  IF k > Len(ms) THEN [reps |-> reps, codeBlocks |-> cb]
  ELSE IF IsKnownLanguage(ms[k].g1)
  THEN FencedLangFold(s, ms, k + 1,
         Append(cb, [language |-> toLowerCase(ms[k].g1), code |-> cleanCode(ms[k].g2)]),
         Append(reps, Placeholder(CODEBLOCK, Len(cb))))
  ELSE FencedLangFold(s, ms, k + 1, cb, Append(reps, Matched(s, ms[k])))

ExtractFencedLang(st) ==
  LET ms == FindAll(st.text, 1, MatchFencedLang, <<>>)
      f  == FencedLangFold(st.text, ms, 1, st.codeBlocks, <<>>)
  IN [st EXCEPT !.text = Splice(st.text, ms, f.reps, 1, 1), !.codeBlocks = f.codeBlocks]

(***************************************************************************)
(* STEP 1b: fenced code blocks without a language                          *)
(*   /(```)\s*\n?([\s\S]*?)\n?(```)/g                                      *)
(***************************************************************************)
PLAINTEXT == <<"p", "l", "a", "i", "n", "t", "e", "x", "t">>

MatchFencedPlain(s, i) ==
  IF ~IsAt(s, i, Fence) THEN NoMatch
  ELSE LET p == RunEnd(s, i + 3, WS) + 1
           q == FindFrom(s, p, Fence)
       IN IF q = 0 THEN NoMatch
          ELSE [end |-> q + 2, g1 |-> <<>>, g2 |-> FenceBody(s, p, q)]

RECURSIVE FencedPlainFold(_,_,_,_)
FencedPlainFold(ms, k, cb, reps) ==
  IF k > Len(ms) THEN [reps |-> reps, codeBlocks |-> cb]
  ELSE FencedPlainFold(ms, k + 1,
         Append(cb, [language |-> PLAINTEXT, code |-> cleanCode(ms[k].g2)]),
         Append(reps, Placeholder(CODEBLOCK, Len(cb))))

ExtractFencedPlain(st) ==
  LET ms == FindAll(st.text, 1, MatchFencedPlain, <<>>)
      f  == FencedPlainFold(ms, 1, st.codeBlocks, <<>>)
  IN [st EXCEPT !.text = Splice(st.text, ms, f.reps, 1, 1), !.codeBlocks = f.codeBlocks]

(***************************************************************************)
(* STEP 1c: inline code, first pass   /(?<!`)`([^`\n]+?)`(?!`)/g           *)
(***************************************************************************)
\* g2 = code
MatchInlineCodeFirst(s, i) ==
  IF s[i] # Tick \/ At(s, i - 1) = Tick THEN NoMatch
  ELSE LET c2 == RunEndNot(s, i + 1, {Tick, NL})
       IN IF c2 > i /\ At(s, c2 + 1) = Tick /\ At(s, c2 + 2) # Tick
          THEN [end |-> c2 + 1, g1 |-> <<Tick>>, g2 |-> SubSeq(s, i + 1, c2)]
          ELSE NoMatch

\* every run of backticks taken as code
AnyTicks(ticks) == TRUE

\* ticks.length % 2 === 1
OddTicks(ticks) == Len(ticks) % 2 = 1

\* the callback of both inline-code passes: odd runs of backticks are code
RECURSIVE InlineCodeFold(_,_,_,_,_)
InlineCodeFold(s, ms, k, ic, reps) ==
  IF k > Len(ms) THEN [reps |-> reps, inlineCodes |-> ic]
  ELSE IF OddTicks(ms[k].g1)
  THEN InlineCodeFold(s, ms, k + 1, Append(ic, ms[k].g2),
                      Append(reps, Placeholder(INLINECODE, Len(ic))))
  ELSE InlineCodeFold(s, ms, k + 1, ic, Append(reps, Matched(s, ms[k])))

ExtractInlineCodeFirst(st) ==
  LET ms == FindAll(st.text, 1, MatchInlineCodeFirst, <<>>)
      f  == InlineCodeFold(st.text, ms, 1, st.inlineCodes, <<>>)
  IN [st EXCEPT !.text = Splice(st.text, ms, f.reps, 1, 1), !.inlineCodes = f.inlineCodes]

(***************************************************************************)
(* STEP 2: tables   /((?:^\s*\|.*\|\s*$\n?)+)/gm                           *)
(***************************************************************************)
\* one round of (?:^\s*\|.*\|\s*$\n?) from the line start i: the last index
\* it matches, 0 when it fails.  .*\| settles on the last pipe of the line;
\* after it \s* runs over whitespace and newlines and gives back up to the
\* last newline of that run (which \n? then takes) unless the run ends the
\* string.
TableLineEnd(s, i) ==
  LET a   == RunEnd(s, i, WS) + 1
      eol == RunEndNot(s, a, {NL})
      b   == LastIn(s, a + 1, eol, "|")
      w2  == RunEnd(s, b + 1, WS)
  IN IF At(s, a) # "|" \/ b = 0 THEN 0
     ELSE IF w2 = Len(s) THEN w2
     ELSE LastIn(s, b + 1, w2, NL)

RECURSIVE TableLinesEnd(_,_)
TableLinesEnd(s, i) ==
  LET e == TableLineEnd(s, i)
  IN IF e = 0 THEN 0
     ELSE LET e2 == TableLinesEnd(s, e + 1)
          IN IF e2 = 0 THEN e ELSE e2

MatchTable(s, i) ==
  IF i > 1 /\ s[i - 1] # NL THEN NoMatch
  ELSE LET e == TableLinesEnd(s, i)
       IN IF e = 0 THEN NoMatch ELSE [end |-> e, g1 |-> <<>>, g2 |-> <<>>]

\* /^\s*\|[\s\-:|]+\|\s*$/.test(line.trim())
IsSeparatorLine(line) ==
  LET t == trim(line)
  IN /\ Len(t) >= 3
     /\ t[1] = "|"
     /\ t[Len(t)] = "|"
     /\ \A k \in 2..(Len(t) - 1) : t[k] \in SeparatorChars

NonBlank(line) == trim(line) # <<>>

\* match.trim().split('\n').filter(line => line.trim())
TableLines(match) == SelectSeq(split(trim(match), NL), NonBlank)

hasSeparator(lines) == \E k \in 1..Len(lines) : IsSeparatorLine(lines[k])

\* a callback that takes every block of two or more lines
IsTableWithoutSeparatorTest(lines) == Len(lines) >= 2

\* the callback's decision: fewer than two lines, or no separator line: no table
IsTable(lines) == Len(lines) >= 2 /\ hasSeparator(lines)

RECURSIVE TableFold(_,_,_,_,_)
TableFold(s, ms, k, tb, reps) ==
  IF k > Len(ms) THEN [reps |-> reps, tables |-> tb]
  ELSE LET lines == TableLines(Matched(s, ms[k]))
       IN IF IsTable(lines)
          THEN TableFold(s, ms, k + 1, Append(tb, lines),
                         Append(reps, Placeholder(TABLE, Len(tb))))
          ELSE TableFold(s, ms, k + 1, tb, Append(reps, Matched(s, ms[k])))

ExtractTables(st) ==
  LET ms == FindAll(st.text, 1, MatchTable, <<>>)
      f  == TableFold(st.text, ms, 1, st.tables, <<>>)
  IN [st EXCEPT !.text = Splice(st.text, ms, f.reps, 1, 1), !.tables = f.tables]

(***************************************************************************)
(* STEP 3: inline code, second pass   /(`+)([^`]+?)\1(?!`)/g               *)
(***************************************************************************)
\* g1 = ticks, g2 = code.  The content holds no backtick, so (`+) must take
\* the whole run from i and the closing run must be exactly as long.
MatchInlineCodeSecond(s, i) ==
  IF s[i] # Tick THEN NoMatch
  ELSE LET t2 == RunEnd(s, i, {Tick})
           c2 == RunEndNot(s, t2 + 1, {Tick})
           k2 == RunEnd(s, c2 + 1, {Tick})
       IN IF c2 > t2 /\ k2 - c2 = t2 - i + 1
          THEN [end |-> k2, g1 |-> SubSeq(s, i, t2), g2 |-> SubSeq(s, t2 + 1, c2)]
          ELSE NoMatch

ExtractInlineCodeSecond(st) ==
  LET ms == FindAll(st.text, 1, MatchInlineCodeSecond, <<>>)
      f  == InlineCodeFold(st.text, ms, 1, st.inlineCodes, <<>>)
  IN [st EXCEPT !.text = Splice(st.text, ms, f.reps, 1, 1), !.inlineCodes = f.inlineCodes]

\* the tables taken before the first inline-code pass
ExtractTablesFirst(st) ==
  ExtractInlineCodeSecond(ExtractInlineCodeFirst(ExtractTables(
    ExtractFencedPlain(ExtractFencedLang(st)))))

\* STEPS 1a..3 in the order of the source
Extract(st) ==
  ExtractInlineCodeSecond(ExtractTables(ExtractInlineCodeFirst(
    ExtractFencedPlain(ExtractFencedLang(st)))))

(***************************************************************************)
(* STEP 5: block and inline formatting, on the escaped text                *)
(***************************************************************************)
LineStart(s, i) == i = 1 \/ s[i - 1] = NL

\* \s+(.+)$ from index `from`: the greedy \s+ gives back until a character
\* that is no newline follows it; (.+) then runs to the end of that line.
\* g1 = the line's rest
SpacesThenRest(s, from) ==
  LET w2 == RunEnd(s, from, WS)
      cs == {c \in (from + 1)..(w2 + 1) : At(s, c) # "" /\ At(s, c) # NL}
  IN IF cs = {} THEN NoMatch
     ELSE LET c == Max(cs)
              eol == RunEndNot(s, c, {NL})
          IN [end |-> eol, g1 |-> SubSeq(s, c, eol), g2 |-> <<>>]

\* /^#{n}\s+(.+)$/gm
MatchHeader(n, s, i) ==
  IF LineStart(s, i) /\ IsAt(s, i, [k \in 1..n |-> "#"])
  THEN SpacesThenRest(s, i + n)
  ELSE NoMatch

MatchH6(s, i) == MatchHeader(6, s, i)
MatchH5(s, i) == MatchHeader(5, s, i)
MatchH4(s, i) == MatchHeader(4, s, i)
MatchH3(s, i) == MatchHeader(3, s, i)
MatchH2(s, i) == MatchHeader(2, s, i)
MatchH1(s, i) == MatchHeader(1, s, i)

ToH6(m) == <<"<h6>">> \o m.g1 \o <<"</h6>">>
ToH5(m) == <<"<h5>">> \o m.g1 \o <<"</h5>">>
ToH4(m) == <<"<h4>">> \o m.g1 \o <<"</h4>">>
ToH3(m) == <<"<h3>">> \o m.g1 \o <<"</h3>">>
ToH2(m) == <<"<h2>">> \o m.g1 \o <<"</h2>">>
ToH1(m) == <<"<h1>">> \o m.g1 \o <<"</h1>">>

Headers(h) ==
  ReplaceAll(ReplaceAll(ReplaceAll(ReplaceAll(ReplaceAll(ReplaceAll(h,
    MatchH6, ToH6), MatchH5, ToH5), MatchH4, ToH4), MatchH3, ToH3),
    MatchH2, ToH2), MatchH1, ToH1)

\* /^\s*(-{3,}|\*{3,}|_{3,})\s*$/gm : the trailing \s* gives back up to the
\* last newline of its run, which stays in the text
MatchRule(s, i) ==
  IF ~LineStart(s, i) THEN NoMatch
  ELSE LET a  == RunEnd(s, i, WS) + 1
           r2 == RunEnd(s, a, {At(s, a)})
           w2 == RunEnd(s, r2 + 1, WS)
           n  == LastIn(s, r2 + 1, w2, NL)
       IN IF At(s, a) \notin {"-", "*", "_"} \/ r2 - a + 1 < 3 THEN NoMatch
          ELSE IF w2 = Len(s) THEN [end |-> w2, g1 |-> <<>>, g2 |-> <<>>]
          ELSE IF n = 0 THEN NoMatch
          ELSE [end |-> n - 1, g1 |-> <<>>, g2 |-> <<>>]

ToRule(m) == <<"<hr>">>

\* /^&gt;\s?(.+)$/gm
MatchBlockquote(s, i) ==
  IF ~(LineStart(s, i) /\ IsAt(s, i, <<"&", "g", "t", ";">>)) THEN NoMatch
  ELSE LET c1 == i + 5   \* (.+) after a one-character \s?
           c0 == i + 4   \* (.+) after an empty \s?
           ok1 == At(s, i + 4) \in WS /\ At(s, c1) # "" /\ At(s, c1) # NL
           ok0 == At(s, c0) # "" /\ At(s, c0) # NL
           c == IF ok1 THEN c1 ELSE c0
           eol == RunEndNot(s, c, {NL})
       IN IF ok1 \/ ok0 THEN [end |-> eol, g1 |-> SubSeq(s, c, eol), g2 |-> <<>>]
          ELSE NoMatch

ToBlockquote(m) == <<"<blockquote>">> \o m.g1 \o <<"</blockquote>">>

\* /^[\-+*]\s+(.+)$/gm
MatchUnordered(s, i) ==
  IF LineStart(s, i) /\ s[i] \in {"-", "+", "*"} THEN SpacesThenRest(s, i + 1)
  ELSE NoMatch

\* /^\d+\.\s+(.+)$/gm
MatchOrdered(s, i) ==
  LET d2 == RunEnd(s, i, Digits)
  IN IF LineStart(s, i) /\ d2 >= i /\ At(s, d2 + 1) = "." THEN SpacesThenRest(s, d2 + 2)
     ELSE NoMatch

ToListItem(m) == <<"<li>">> \o m.g1 \o <<"</li>">>

\* one round of (<li>.*<\/li>\n?) from i: its last index, 0 when it fails
ListItemEnd(s, i) ==
  LET eol == RunEndNot(s, i, {NL})
      c   == LastIn(s, i + 1, eol, "</li>")
  IN IF At(s, i) # "<li>" \/ c = 0 THEN 0
     ELSE IF At(s, c + 1) = NL THEN c + 1 ELSE c

RECURSIVE ListItemsEnd(_,_)
ListItemsEnd(s, i) ==
  LET e == ListItemEnd(s, i)
  IN IF e = 0 THEN 0
     ELSE LET e2 == ListItemsEnd(s, e + 1)
          IN IF e2 = 0 THEN e ELSE e2

\* /(<li>.*<\/li>\n?)+/g ; g1 = the whole match
MatchListRun(s, i) ==
  LET e == ListItemsEnd(s, i)
  IN IF e = 0 THEN NoMatch ELSE [end |-> e, g1 |-> SubSeq(s, i, e), g2 |-> <<>>]

\* /\d+\.\s/.test(match)
HasOrderedPattern(match) ==
  \E k \in 1..Len(match) :
    match[k] \in Digits /\ At(match, k + 1) = "." /\ At(match, k + 2) \in WS

WrapList(m) ==
  IF HasOrderedPattern(m.g1) THEN <<"<ol>">> \o m.g1 \o <<"</ol>">>
  ELSE <<"<ul>">> \o m.g1 \o <<"</ul>">>

\* dd([^d]+?)dd for a doubled delimiter d:  /\*\*([^*]+?)\*\*/g, /~~([^~]+?)~~/g
MatchDoubled(d, s, i) ==
  LET c2 == RunEndNot(s, i + 2, {d})
  IN IF s[i] = d /\ At(s, i + 1) = d /\ c2 >= i + 2
        /\ At(s, c2 + 1) = d /\ At(s, c2 + 2) = d
     THEN [end |-> c2 + 2, g1 |-> SubSeq(s, i + 2, c2), g2 |-> <<>>]
     ELSE NoMatch

\* (?<!d)d([^d\n]+?)d(?!d) for a single delimiter d
MatchSingle(d, s, i) ==
  LET c2 == RunEndNot(s, i + 1, {d, NL})
  IN IF s[i] = d /\ At(s, i - 1) # d /\ c2 > i
        /\ At(s, c2 + 1) = d /\ At(s, c2 + 2) # d
     THEN [end |-> c2 + 1, g1 |-> SubSeq(s, i + 1, c2), g2 |-> <<>>]
     ELSE NoMatch

MatchBold(s, i) == MatchDoubled("*", s, i)
MatchItalicStar(s, i) == MatchSingle("*", s, i)
MatchItalicUnderscore(s, i) == MatchSingle("_", s, i)
MatchStrike(s, i) == MatchDoubled("~", s, i)

ToStrong(m) == <<"<strong>">> \o m.g1 \o <<"</strong>">>
ToEm(m) == <<"<em>">> \o m.g1 \o <<"</em>">>
ToDel(m) == <<"<del>">> \o m.g1 \o <<"</del>">>

\* \[(...)\]\(([^)]+)\) with the bracket at b; g1 = text, g2 = url
MatchBracketParen(s, b, minText) ==
  LET t2 == RunEndNot(s, b + 1, {"]"})
      u2 == RunEndNot(s, t2 + 3, {")"})
  IN IF At(s, b) = "[" /\ t2 - b >= minText /\ At(s, t2 + 1) = "]"
        /\ At(s, t2 + 2) = "(" /\ u2 >= t2 + 3 /\ At(s, u2 + 1) = ")"
     THEN [end |-> u2 + 1, g1 |-> SubSeq(s, b + 1, t2), g2 |-> SubSeq(s, t2 + 3, u2)]
     ELSE NoMatch

\* /\[([^\]]+)\]\(([^)]+)\)/g
MatchLink(s, i) == MatchBracketParen(s, i, 1)

\* /!\[([^\]]*)\]\(([^)]+)\)/g
MatchImage(s, i) == IF s[i] = "!" THEN MatchBracketParen(s, i + 1, 0) ELSE NoMatch

ToAnchor(m) ==
  <<"<a href=\"">> \o m.g2 \o <<"\" target=\"_blank\" rel=\"noopener noreferrer\">">>
    \o m.g1 \o <<"</a>">>

ToImg(m) ==
  <<"<img src=\"">> \o m.g2 \o <<"\" alt=\"">> \o m.g1 \o <<"\" loading=\"lazy\">">>

\* bold, italic, strikethrough, links, images: the rules parseMarkdown and
\* parseInlineMarkdown share, in their order
InlineRules(h) ==
  ReplaceAll(ReplaceAll(ReplaceAll(ReplaceAll(ReplaceAll(ReplaceAll(h,
    MatchBold, ToStrong), MatchItalicStar, ToEm), MatchItalicUnderscore, ToEm),
    MatchStrike, ToDel), MatchLink, ToAnchor), MatchImage, ToImg)

\* /\n\n/g
MatchBlankLine(s, i) ==
  IF s[i] = NL /\ At(s, i + 1) = NL THEN [end |-> i + 1, g1 |-> <<>>, g2 |-> <<>>]
  ELSE NoMatch

ToParagraphBreak(m) == <<"</p>", "<p>">>

\* /<\/p><p>\s*<p>/g
MatchDoubleParagraph(s, i) ==
  LET w2 == RunEnd(s, i + 2, WS)
  IN IF s[i] = "</p>" /\ At(s, i + 1) = "<p>" /\ At(s, w2 + 1) = "<p>"
     THEN [end |-> w2 + 1, g1 |-> <<>>, g2 |-> <<>>]
     ELSE NoMatch

\* /<p>\s*<\/p>/g
MatchEmptyParagraph(s, i) ==
  LET w2 == RunEnd(s, i + 1, WS)
  IN IF s[i] = "<p>" /\ At(s, w2 + 1) = "</p>"
     THEN [end |-> w2 + 1, g1 |-> <<>>, g2 |-> <<>>]
     ELSE NoMatch

ToNothing(m) == <<>>

\* newlines to paragraphs and line breaks, the <p> wrapper and its clean-up
Paragraphs(h) ==
  ReplaceAll(ReplaceAll(
    <<"<p>">> \o ReplaceChar(ReplaceAll(h, MatchBlankLine, ToParagraphBreak),
                             NL, <<"<br>">>) \o <<"</p>">>,
    MatchDoubleParagraph, ToParagraphBreak), MatchEmptyParagraph, ToNothing)

\* STEP 5 as a whole
Format(h) ==
  Paragraphs(InlineRules(ReplaceAll(ReplaceAll(ReplaceAll(ReplaceAll(ReplaceAll(
    Headers(h), MatchRule, ToRule), MatchBlockquote, ToBlockquote),
    MatchUnordered, ToListItem), MatchOrdered, ToListItem), MatchListRun, WrapList)))

(***************************************************************************)
(* Inline formatter of table cells                                         *)
(***************************************************************************)
InlineCodeOpen == "<code class=\"inline-code\">"
InlineCodeHtml(code) == <<InlineCodeOpen>> \o escapeHtml(code) \o <<"</code>">>

\* parseInt of a run of decimal digits
RECURSIVE parseInt(_)
parseInt(ds) ==
  IF ds = <<>> THEN 0
  ELSE parseInt(SubSeq(ds, 1, Len(ds) - 1)) * 10
         + (CHOOSE k \in 0..9 : ToDigits(k) = <<ds[Len(ds)]>>)

\* /__INLINECODE_(\d+)__/g ; g1 = num
MatchInlineCodePlaceholder(s, i) ==
  LET pre == <<"_", "_">> \o INLINECODE \o <<"_">>
      d1  == i + Len(pre)
      d2  == RunEnd(s, d1, Digits)
  IN IF IsAt(s, i, pre) /\ d2 >= d1 /\ IsAt(s, d2 + 1, <<"_", "_">>)
     THEN [end |-> d2 + 2, g1 |-> SubSeq(s, d1, d2), g2 |-> <<>>]
     ELSE NoMatch

parseInlineMarkdown(t, ic) ==
  IF Falsy(t) THEN <<>>
  ELSE LET ms   == FindAll(t, 1, MatchInlineCodePlaceholder, <<>>)
           reps == [k \in 1..Len(ms) |->
                      LET codeIndex == parseInt(ms[k].g1)
                      IN IF codeIndex >= 0 /\ codeIndex < Len(ic)
                         THEN InlineCodeHtml(ic[codeIndex + 1])
                         ELSE Matched(t, ms[k])]
       IN InlineRules(Splice(t, ms, reps, 1, 1))

(***************************************************************************)
(* parseTable                                                              *)
(***************************************************************************)
\* /^\|[\s\-:|]+\|$/.test(lines[i].trim()): index of the first such line, 0: none
separatorIndexOf(lines) ==
  IF \E k \in 1..Len(lines) : IsSeparatorLine(lines[k])
  THEN CHOOSE k \in 1..Len(lines) :
         IsSeparatorLine(lines[k]) /\ \A j \in 1..(k - 1) : ~IsSeparatorLine(lines[j])
  ELSE 0

alignmentOf(cell) ==
  LET trimmed == trim(cell)
      leftColon == At(trimmed, 1) = ":"
      rightColon == At(trimmed, Len(trimmed)) = ":"
  IN IF leftColon /\ rightColon THEN "center"
     ELSE IF rightColon THEN "right"
     ELSE "left"

\* lines[separatorIndex].split('|').filter(cell => cell.trim() !== '').map(...)
alignmentsOf(line) ==
  LET separatorCells == SelectSeq(split(line, "|"), NonBlank)
  IN [k \in 1..Len(separatorCells) |-> alignmentOf(separatorCells[k])]

\* row.split('|') without a blank first and a blank last cell
rowCells(row) ==
  LET arr == split(row, "|")
      keep == {k \in 1..Len(arr) :
                 ~(k = 1 /\ trim(arr[k]) = <<>>) /\ ~(k = Len(arr) /\ trim(arr[k]) = <<>>)}
      lo == IF 1 \in keep THEN 1 ELSE 2
      hi == IF Len(arr) \in keep THEN Len(arr) ELSE Len(arr) - 1
  IN SubSeq(arr, lo, hi)

\* a cell beyond the alignment list takes the last alignment
alignAtLast(alignments, idx) ==
  IF idx <= Len(alignments) THEN alignments[idx] ELSE alignments[Len(alignments)]

\* alignments[idx] || 'left'
alignAt(alignments, idx) ==
  IF idx <= Len(alignments) THEN alignments[idx] ELSE "left"

CellOpen(tag, align) ==
  IF tag = "th"
  THEN (CASE align = "center" -> "<th style=\"text-align: center\">"
          [] align = "right" -> "<th style=\"text-align: right\">"
          [] OTHER -> "<th style=\"text-align: left\">")
  ELSE (CASE align = "center" -> "<td style=\"text-align: center\">"
          [] align = "right" -> "<td style=\"text-align: right\">"
          [] OTHER -> "<td style=\"text-align: left\">")

CellClose(tag) == IF tag = "th" THEN "</th>" ELSE "</td>"

cellHtml(tag, cell, idx, alignments, ic) ==
  <<CellOpen(tag, alignAt(alignments, idx))>>
    \o parseInlineMarkdown(escapeHtml(trim(cell)), ic) \o <<CellClose(tag)>>

rowHtml(tag, row, alignments, ic) ==
  LET cells == rowCells(row)
  IN <<"<tr>">>
       \o Flatten([k \in 1..Len(cells) |-> cellHtml(tag, cells[k], k, alignments, ic)])
       \o <<"</tr>">>

\* headerRows.forEach(row => ...) between <thead> and </thead>
theadHtml(headerRows, alignments, ic) ==
  IF Len(headerRows) > 0
  THEN <<"<thead>">>
         \o Flatten([k \in 1..Len(headerRows) |->
                       rowHtml("th", headerRows[k], alignments, ic)])
         \o <<"</thead>">>
  ELSE <<>>

\* bodyRows.forEach(row => ...) between <tbody> and </tbody>; blank rows are skipped
tbodyHtml(bodyRows, alignments, ic) ==
  IF Len(bodyRows) > 0
  THEN <<"<tbody>">>
         \o Flatten([k \in 1..Len(bodyRows) |->
                       IF trim(bodyRows[k]) = <<>> THEN <<>>
                       ELSE rowHtml("td", bodyRows[k], alignments, ic)])
         \o <<"</tbody>">>
  ELSE <<>>

\* the table around the separator line at separatorIndex
tableHtml(lines, separatorIndex, alignments, ic) ==
  <<"<div class=\"table-wrapper\">", "<table>">>
    \o theadHtml(SubSeq(lines, 1, separatorIndex - 1), alignments, ic)
    \o tbodyHtml(SubSeq(lines, separatorIndex + 1, Len(lines)), alignments, ic)
    \o <<"</table>", "</div>">>

tableAround(lines, separatorIndex, ic) ==
  IF separatorIndex = 0 THEN join(lines, NL)
  ELSE tableHtml(lines, separatorIndex, alignmentsOf(lines[separatorIndex]), ic)

parseTable(lines, ic) ==
  IF Len(lines) < 2 THEN <<>>
  ELSE tableAround(lines, separatorIndexOf(lines), ic)

(***************************************************************************)
(* STEP 6: restoring the placeholders                                      *)
(***************************************************************************)
\* the replacement patterns String.prototype.replace expands in a replacement
\* string (the expressions here have no groups, so $1.. stay as they are):
\* $$, $&, $` (the text before the match) and $' (the text after it)
RECURSIVE GetSubstitution(_,_,_,_)
GetSubstitution(rep, k, str, m) ==
  LET d    == FindFrom(rep, k, <<"$">>)
      next == At(rep, d + 1)
  IN IF d = 0 THEN SubSeq(rep, k, Len(rep))
     ELSE SubSeq(rep, k, d - 1) \o
          (IF next = "$" THEN <<"$">> \o GetSubstitution(rep, d + 2, str, m)
           ELSE IF next = "&" THEN Matched(str, m) \o GetSubstitution(rep, d + 2, str, m)
           ELSE IF next = Tick
           THEN SubSeq(str, 1, m.start - 1) \o GetSubstitution(rep, d + 2, str, m)
           ELSE IF next = "'"
           THEN SubSeq(str, m.end + 1, Len(str)) \o GetSubstitution(rep, d + 2, str, m)
           ELSE <<"$">> \o GetSubstitution(rep, d + 1, str, m))

MatchLiteral(pat, s, i) ==
  IF IsAt(s, i, pat) THEN [end |-> i + Len(pat) - 1, g1 |-> <<>>, g2 |-> <<>>]
  ELSE NoMatch

\* str.replace(new RegExp(pat, 'g'), rep) with a replacement string
ReplaceWithString(str, pat, rep) ==
  LET ms == FindAll(str, 1, LAMBDA s, i : MatchLiteral(pat, s, i), <<>>)
  IN Splice(str, ms, [k \in 1..Len(ms) |-> GetSubstitution(rep, 1, str, ms[k])], 1, 1)

RECURSIVE RestoreInlineCodes(_,_,_)
RestoreInlineCodes(h, ic, i) ==
  IF i >= Len(ic) THEN h
  ELSE RestoreInlineCodes(
         ReplaceWithString(h, Placeholder(INLINECODE, i), InlineCodeHtml(ic[i + 1])),
         ic, i + 1)

RECURSIVE RestoreTables(_,_,_,_)
RestoreTables(h, tb, ic, i) ==
  IF i >= Len(tb) THEN h
  ELSE RestoreTables(
         ReplaceWithString(h, Placeholder(TABLE, i), parseTable(tb[i + 1], ic)),
         tb, ic, i + 1)

CodeHeaderOpen ==
  "\n        <div class=\"code-header\">\n          <span class=\"code-language\">"
CodeHeaderRest ==
  "</span>\n          <button class=\"copy-btn\" onclick=\"copyCode(this)\" title=\"Copy code\">\n            <svg width=\"16\" height=\"16\" viewBox=\"0 0 24 24\" fill=\"none\" stroke=\"currentColor\" stroke-width=\"2\">\n              <rect x=\"9\" y=\"9\" width=\"13\" height=\"13\" rx=\"2\" ry=\"2\"></rect>\n              <path d=\"M5 15H4a2 2 0 0 1-2-2V4a2 2 0 0 1 2-2h9a2 2 0 0 1 2 2v1\"></path>\n            </svg>\n            <span>Copy</span>\n          </button>\n        </div>\n        "
PreOpen == "<pre class=\"code-block\">"
CodeOpen == "<code class=\"language-"

\* the template literal codeHtml
codeHtml(block) ==
  LET escaped == escapeHtml(block.code)
      langDisplay == IF block.language = PLAINTEXT THEN <<"t", "e", "x", "t">>
                     ELSE block.language
  IN <<NL, " ", " ", " ", " ", " ", " ", "<div class=\"code-block-wrapper\">", CodeHeaderOpen>>
       \o escapeHtml(langDisplay)
       \o <<CodeHeaderRest, PreOpen, CodeOpen>> \o block.language \o <<"\">">>
       \o escaped
       \o <<"</code>", "</pre>", NL, " ", " ", " ", " ", " ", " ", "</div>">>

RECURSIVE RestoreCodeBlocks(_,_,_)
RestoreCodeBlocks(h, cb, i) ==
  IF i >= Len(cb) THEN h
  ELSE RestoreCodeBlocks(
         ReplaceWithString(h, Placeholder(CODEBLOCK, i), codeHtml(cb[i + 1])),
         cb, i + 1)

\* inline codes, then tables, then code blocks
Restore(h, st) ==
  RestoreCodeBlocks(
    RestoreTables(RestoreInlineCodes(h, st.inlineCodes, 0), st.tables, st.inlineCodes, 0),
    st.codeBlocks, 0)

(***************************************************************************)
(* Clean-up of <br> around block elements                                  *)
(***************************************************************************)
\* the opening tags <(div|table|ul|ol|blockquote|h[1-6]|hr|pre) can begin
BlockOpenTags ==
  {"<div class=\"code-block-wrapper\">", "<div class=\"table-wrapper\">", "<table>",
   "<ul>", "<ol>", "<blockquote>", "<h1>", "<h2>", "<h3>", "<h4>", "<h5>", "<h6>",
   "<hr>", PreOpen}
\* <\/(div|table|ul|ol|blockquote|h[1-6]|pre)>
BlockCloseTags ==
  {"</div>", "</table>", "</ul>", "</ol>", "</blockquote>",
   "</h1>", "</h2>", "</h3>", "</h4>", "</h5>", "</h6>", "</pre>"}

\* /<br>\n?<(div|...)/g replaced by '<$1': the <br> and the newline go
MatchBrBeforeBlock(s, i) ==
  LET e == IF At(s, i + 1) = NL THEN i + 1 ELSE i
  IN IF s[i] = "<br>" /\ At(s, e + 1) \in BlockOpenTags
     THEN [end |-> e, g1 |-> <<>>, g2 |-> <<>>]
     ELSE NoMatch

\* /<\/(div|...)><br>/g replaced by '</$1>'; g1 = the closing tag
MatchBrAfterBlock(s, i) ==
  IF s[i] \in BlockCloseTags /\ At(s, i + 1) = "<br>"
  THEN [end |-> i + 1, g1 |-> <<s[i]>>, g2 |-> <<>>]
  ELSE NoMatch

ToGroup1(m) == m.g1

\* /<br><\/p>/g
MatchBrEndParagraph(s, i) ==
  IF s[i] = "<br>" /\ At(s, i + 1) = "</p>" THEN [end |-> i, g1 |-> <<>>, g2 |-> <<>>]
  ELSE NoMatch

\* /<p><br>/g
MatchBrStartParagraph(s, i) ==
  IF s[i] = "<p>" /\ At(s, i + 1) = "<br>" THEN [end |-> i + 1, g1 |-> <<"<p>">>, g2 |-> <<>>]
  ELSE NoMatch

Cleanup(h) ==
  ReplaceAll(ReplaceAll(ReplaceAll(ReplaceAll(h,
    MatchBrBeforeBlock, ToNothing), MatchBrAfterBlock, ToGroup1),
    MatchBrEndParagraph, ToNothing), MatchBrStartParagraph, ToGroup1)

(***************************************************************************)
(* parseMarkdown                                                           *)
(***************************************************************************)
\* arrays that outlive the call, as module-level arrays would
SharedTables(left) == left

\* const codeBlocks = []; const inlineCodes = []; const tables = [];
\* `left` is what an earlier call left in its own arrays
LocalTables(left) == [codeBlocks |-> <<>>, inlineCodes |-> <<>>, tables |-> <<>>]

\* a guard that returns no string
UndefinedResult == Undefined

\* the value returned for a falsy text
EmptyResult == <<>>

\* the call, with the arrays it works on: html is the value returned
\* STEP 4 to the return, on what STEPs 1 to 3 left
Finish(st) ==
  [html |-> Cleanup(Restore(Format(escapeHtml(st.text)), st)),
   codeBlocks |-> st.codeBlocks, inlineCodes |-> st.inlineCodes, tables |-> st.tables]

parseMarkdownIn(t, arrays) ==
  IF Falsy(t)
  THEN [html |-> EmptyResult, codeBlocks |-> arrays.codeBlocks,
        inlineCodes |-> arrays.inlineCodes, tables |-> arrays.tables]
  ELSE Finish(Extract([text |-> t, codeBlocks |-> arrays.codeBlocks,
                       inlineCodes |-> arrays.inlineCodes, tables |-> arrays.tables]))

parseMarkdown(t) ==
  parseMarkdownIn(t, LocalTables([codeBlocks |-> <<>>, inlineCodes |-> <<>>, tables |-> <<>>])).html

(***************************************************************************)
(* The texts the renderer is called on                                     *)
(***************************************************************************)
\* a string literal as a JavaScript string; ^ stands for a backtick
Str(lit) ==
  [k \in 1..Len(lit) |-> IF SubSeq(lit, k, k) = "^" THEN Tick ELSE SubSeq(lit, k, k)]

\* the sequences of at most n elements of S
RECURSIVE SeqsUpTo(_,_)
SeqsUpTo(S, n) ==
  IF n = 0 THEN {<<>>}
  ELSE LET shorter == SeqsUpTo(S, n - 1)
       IN shorter \cup {Append(q, x) : q \in shorter, x \in S}

\* longest string of ShortAlphabet characters tried exhaustively
MaxLen == 3
\* most header rows, and most body rows, of a generated table
MaxRows == 2
\* most calls of the renderer in one run
MaxCalls == 2

ShortAlphabet == {"*", "_", Tick, "|", NL, "a"}
ShortTexts == SeqsUpTo(ShortAlphabet, MaxLen)

\* what a user may type into any position of a message
Payloads ==
  {Str("<script>"), Str("$<script>"), Str("x"), Str("$&"), Str("$$"), Str("$'"),
   Str("$^"), Str("a&b"), Str("__INLINECODE_0__"), Str("__CODEBLOCK_0__"),
   Str("__TABLE_0__")}

\* payload p as plain text, heading, list item, quote, link text, link URL,
\* inline code, table header cell, table body cell, fenced code with and
\* without a language
InContext(p) ==
  {p,
   Str("# ") \o p,
   Str("- ") \o p,
   Str("> ") \o p,
   Str("[") \o p \o Str("](u)"),
   Str("[a](") \o p \o Str(")"),
   Str("^") \o p \o Str("^"),
   Str("| ") \o p \o Str(" |\n|---|\n| 1 |"),
   Str("| A |\n|---|\n| ") \o p \o Str(" |"),
   Str("^^^py\n") \o p \o Str("\n^^^"),
   Str("^^^\n") \o p \o Str("\n^^^")}

ContextTexts == UNION {InContext(p) : p \in Payloads}

\* fences: ```tag, newline, body, newline, closing run of backticks
KnownTags == {Str("python"), Str("Py"), Str("c")}
UnknownTags == {Str("frobnicate"), Str("zz")}
Bodies == {Str("x"), Str("print(\"hi\")"), Str("\nx\n"), Str("a<b"), Str("$&")}
Closings == {Str(""), Str("^"), Str("^^"), Str("^^^")}

Fenced(tag, body, closing) == Str("^^^") \o tag \o <<NL>> \o body \o <<NL>> \o closing

FenceTexts ==
  {Fenced(tag, body, closing) :
     tag \in KnownTags \cup UnknownTags \cup {<<>>}, body \in Bodies, closing \in Closings}

\* every prefix of a fenced block, as a streamed reply grows
StreamedReply == Fenced(Str("py"), Str("x"), Str("^^^"))
StreamTexts == {SubSeq(StreamedReply, 1, k) : k \in 0..Len(StreamedReply)}

\* tables: a row is the sequence of its cells, written | c1 | c2 |
RowLine(cells) ==
  Str("|") \o Flatten([k \in 1..Len(cells) |-> Str(" ") \o cells[k] \o Str(" |")])

HeaderRowChoices == {<<Str("A"), Str("B")>>, <<Str("H")>>}
BodyRowChoices == {<<Str("1"), Str("2")>>, <<Str("$&")>>}
\* a separator row is the sequence of its column marks; <<>>: no separator row
SeparatorChoices ==
  {<<>>, <<Str("---"), Str("---")>>, <<Str(":-:"), Str("--:")>>, <<Str(":--")>>}

SeparatorLine(marks) ==
  Str("|") \o Flatten([k \in 1..Len(marks) |-> marks[k] \o Str("|")])

TableText(headers, marks, bodies) ==
  join([k \in 1..Len(headers) |-> RowLine(headers[k])]
         \o (IF marks = <<>> THEN <<>> ELSE <<SeparatorLine(marks)>>)
         \o [k \in 1..Len(bodies) |-> RowLine(bodies[k])], NL)

TableTexts ==
  {TableText(hs, marks, bs) :
     hs \in SeqsUpTo(HeaderRowChoices, MaxRows), marks \in SeparatorChoices,
     bs \in SeqsUpTo(BodyRowChoices, MaxRows)}

\* single texts: the empty text, a lone table-like line, nested emphasis,
\* unbalanced markers, text shaped like a placeholder next to a protected span
OtherTexts ==
  {Str(""), Str("| just | some | text |"), Str("**bold *and italic* text**"),
   Str("**a"), Str("~~a"), Str("[a]("), Str("![a](u)"), Str("# "), Str("1. a\n2. b"),
   Str("| a"), Str("^a^__INLINECODE_1__"), Str("^a^ | b\n|---|\n__TABLE_0__"),
   Str("a\n\n^^^c\nx\n^^^\n\n| A |\n|---|\n| ^y^ |")}

\* the three placeholders with index 0, as a user may type them
Sentinels == {Str("__INLINECODE_0__"), Str("__TABLE_0__"), Str("__CODEBLOCK_0__")}

\* a protected region of each kind
ProtectedRegions == {Str("^a^"), Str("| A |\n|---|\n| 1 |"), Str("^^^py\nx\n^^^")}

\* a protected region, a blank line, then a typed placeholder in each context
SentinelTexts ==
  {r \o <<NL, NL>> \o c : r \in ProtectedRegions, c \in UNION {InContext(p) : p \in Sentinels}}

\* list runs written with digits and a dot, and written with a bullet
OrderedTexts == {Str("1. a\n2. b"), Str("1. a"), Str("10. a\n11. b")}
BulletTexts == {Str("- a\n- b"), Str("* a"), Str("+ a\n+ b"), Str("- 1. a")}

\* an image with each alt text, and a link, alone, inside a sentence and in
\* a table cell
ImageAlts == {Str(""), Str("alt"), Str("a b")}

Placed(span) ==
  {span, Str("x ") \o span \o Str(" y"), Str("| H |\n|---|\n| ") \o span \o Str(" |")}

ImageSpan(alt) == Str("![") \o alt \o Str("](u.png)")
LinkSpan == Str("[t](u)")

ImageTexts == UNION {Placed(ImageSpan(alt)) : alt \in ImageAlts}
LinkTexts == Placed(LinkSpan)

\* spans of N backticks, content without a backtick, N backticks; the
\* spans of one backtick around one line are taken by the first pass, and a
\* run of three or more is taken by the fence passes
MaxTicks == 4
Ticks(n) == [k \in 1..n |-> Tick]
SpanContents == {Str("a"), Str("a\nb"), Str("a<b\nc")}
TickSpan(n, c) == Ticks(n) \o c \o Ticks(n)
SpanBefore == {Str(""), Str("x ")}
SpanAfter == {Str(""), Str(" y")}
TickSpanTexts ==
  {pre \o TickSpan(n, c) \o post :
     n \in 1..MaxTicks, c \in SpanContents, pre \in SpanBefore, post \in SpanAfter}

\* tables whose rows have fewer cells than, as many cells as, and more cells
\* than the separator row has marks
AlignMarks ==
  {<<Str(":-:"), Str("--:")>>, <<Str(":--"), Str("---")>>, <<Str("--:")>>}
AlignRows == {<<Str("a")>>, <<Str("a"), Str("b")>>, <<Str("a"), Str("b"), Str("c")>>}
AlignTexts ==
  {TableText(<<h>>, marks, <<b>>) : h \in AlignRows, marks \in AlignMarks, b \in AlignRows}

\* a table row whose first cell is an inline code span holding a pipe,
\* as a header row and as a body row
PipeCodes == {Str("x|y"), Str("|"), Str("a|b|c")}
PipeInHeader(code) ==
  Str("| ^") \o code \o Str("^ | K |\n|---|---|\n| 1 | 2 |")
PipeInBody(code) ==
  Str("| H | K |\n|---|---|\n| ^") \o code \o Str("^ | 2 |")
PipeTexts == {PipeInHeader(c) : c \in PipeCodes} \cup {PipeInBody(c) : c \in PipeCodes}

\* a line of text before and after each kind of block, and a text that
\* begins or ends with a newline
Blocks ==
  {Str("---"), Str("# h"), Str("###### h"), Str("> q"), Str("- i"), Str("1. i"),
   Str("^^^py\nx\n^^^"), Str("| A |\n|---|\n| 1 |")}
BreakTexts ==
  {Str("a\n") \o b : b \in Blocks} \cup {b \o Str("\na") : b \in Blocks}
    \cup {Str("a\n") \o b \o Str("\nc") : b \in Blocks}
    \cup {Str("\na"), Str("a\n"), Str("a\n\n\nb"), Str("---\n\na")}

Inputs == ShortTexts \cup ContextTexts \cup FenceTexts \cup StreamTexts
            \cup TableTexts \cup OtherTexts \cup SentinelTexts
            \cup OrderedTexts \cup BulletTexts
            \cup ImageTexts \cup LinkTexts \cup TickSpanTexts
            \cup AlignTexts \cup PipeTexts \cup BreakTexts

\* texts of later calls, besides the text already shown
LaterTexts ==
  {Str("a\n\n^^^c\nx\n^^^\n\n| A |\n|---|\n| ^y^ |"), Str("^a^ ^b^")}

(***************************************************************************)
(* The renderer as the page calls it                                       *)
(***************************************************************************)
\* the keys the page stores under
Keys == {"conversation", "currentChatId"}

\* a store in which every key is absent
Empty(absent) == [k \in Keys |-> absent]

\* the storage tiers before any call, with nothing stored
StoreIdle ==
  /\ indexedDB = "missing"
  /\ db = Null
  /\ objectStore = Empty(Undefined)
  /\ memoryStorage = Empty(Undefined)
  /\ localStorage = Empty(Null)
  /\ storageFull = FALSE
  /\ ops = <<>>

\* let currentChatId = null, before initializeData
NoChat == 0

\* no call logged
NoCall == [fn |-> "none"]

ChatIdle ==
  /\ currentChatId = NoChat
  /\ nextChatId = 1
  /\ lastCall = NoCall
  /\ pending = <<>>
  /\ timers = <<>>
  /\ now = 0

\* the page as loaded, online, with an empty conversation
PageIdle ==
  /\ isOnline = TRUE
  /\ disabled = FALSE
  /\ prompt = <<>>
  /\ conversation = <<>>
  /\ chatHistory = <<>>
  /\ sends = <<>>
  /\ output = <<>>
  /\ renders = <<>>
  /\ chatCalls = 0
  /\ saveTimeout = FALSE
  /\ stored = [conversation |-> Null, chatHistory |-> Null, currentChatId |-> NoChat]

\* no call of the renderer
RenderIdle ==
  /\ text = <<>>
  /\ html = <<>>
  /\ codeBlocks = <<>>
  /\ inlineCodes = <<>>
  /\ tables = <<>>
  /\ pc = "idle"
  /\ rendered = <<>>

Init ==
  /\ text \in Inputs
  /\ html = <<>>
  /\ codeBlocks = <<>>
  /\ inlineCodes = <<>>
  /\ tables = <<>>
  /\ pc = "ready"
  /\ rendered = <<>>
  /\ StoreIdle
  /\ PageIdle
  /\ ChatIdle

\* parseMarkdown(t): html is what it returns; codeBlocks, inlineCodes and
\* tables are its arrays as the call leaves them; rendered logs the calls
Returned(t, r) ==
  /\ html' = r.html
  /\ codeBlocks' = r.codeBlocks
  /\ inlineCodes' = r.inlineCodes
  /\ tables' = r.tables
  /\ rendered' = Append(rendered, [text |-> t, html |-> r.html])

Call(t) ==
  Returned(t, parseMarkdownIn(t, LocalTables([codeBlocks |-> codeBlocks,
                                              inlineCodes |-> inlineCodes,
                                              tables |-> tables])))

\* renderReplyStreamUpdate(container, text): the first rendering of text
Render ==
  /\ pc = "ready"
  /\ Call(text)
  /\ pc' = "done"
  /\ UNCHANGED <<text, storeVars, pageVars, chatVars, timeVars>>

\* a later rendering: the same text again, or another message
RenderAgain ==
  /\ pc = "done"
  /\ Len(rendered) < MaxCalls
  /\ \E t \in {text} \cup LaterTexts :
       /\ text' = t
       /\ Call(t)
  /\ UNCHANGED <<pc, storeVars, pageVars, chatVars, timeVars>>

Next == Render \/ RenderAgain

Spec == Init /\ [][Next]_vars
(***************************************************************************)
(* escapeHtml on its own                                                   *)
(***************************************************************************)
\* longest string escapeHtml is tried on
MaxEscLen == 3

EscapeAlphabet == {"&", "<", ">", "\"", "'", ";", "a"}
EscapeInputs == SeqsUpTo(EscapeAlphabet, MaxEscLen) \cup {Null, Undefined}

InitEscape ==
  /\ text \in EscapeInputs
  /\ html = <<>>
  /\ codeBlocks = <<>>
  /\ inlineCodes = <<>>
  /\ tables = <<>>
  /\ pc = "ready"
  /\ rendered = <<>>
  /\ StoreIdle
  /\ PageIdle
  /\ ChatIdle

\* escapeHtml(text)
Escape ==
  /\ pc = "ready"
  /\ html' = escapeHtml(text)
  /\ pc' = "escaped"
  /\ UNCHANGED <<text, codeBlocks, inlineCodes, tables, rendered, storeVars, pageVars, chatVars, timeVars>>

NextEscape == Escape

SpecEscape == InitEscape /\ [][NextEscape]_vars

(***************************************************************************)
(* Storage: getItem, setItem, removeItem over IndexedDB, with the           *)
(* memoryStorage object and localStorage as fallback.  localStorage is     *)
(* indexed by the key; the prefix fallback_ of its entries is implied.     *)
(***************************************************************************)
\* most calls of the storage functions in one run
MaxOps == 3

\* JSON.stringify of a string without control characters
JSONstringify(v) ==
  <<"\"">> \o Flatten([k \in 1..Len(v) |->
                        IF v[k] \in {"\"", "\\"} THEN <<"\\", v[k]>> ELSE <<v[k]>>])
          \o <<"\"">>

\* JSON.parse throws
SyntaxError == <<"#SyntaxError">>

\* the characters of a JSON string body from index k on, unescaped
RECURSIVE Unescape(_,_)
Unescape(b, k) ==
  IF k > Len(b) THEN <<>>
  ELSE IF b[k] = "\\" THEN <<b[k + 1]>> \o Unescape(b, k + 2)
  ELSE <<b[k]>> \o Unescape(b, k + 1)

\* the escapes of a JSON string body are complete and its quotes escaped
RECURSIVE WellEscaped(_,_)
WellEscaped(b, k) ==
  IF k > Len(b) THEN TRUE
  ELSE IF b[k] = "\\" THEN k < Len(b) /\ b[k + 1] \in {"\"", "\\"} /\ WellEscaped(b, k + 2)
  ELSE b[k] # "\"" /\ WellEscaped(b, k + 1)

\* JSON.parse of a stored text: the string it denotes; any text that is not
\* a JSON string literal is taken as not parseable
JSONparse(s) ==
  IF Len(s) >= 2 /\ Head(s) = "\"" /\ s[Len(s)] = "\""
     /\ WellEscaped(SubSeq(s, 2, Len(s) - 1), 1)
  THEN Unescape(SubSeq(s, 2, Len(s) - 1), 1)
  ELSE SyntaxError

\* getMemoryStorage(key)
getMemoryStorage(key) ==
  IF memoryStorage[key] # Undefined THEN memoryStorage[key]
  ELSE IF localStorage[key] # Null
  THEN IF JSONparse(localStorage[key]) = SyntaxError THEN localStorage[key]
       ELSE JSONparse(localStorage[key])
  ELSE Null

\* setMemoryStorage(key, value): the memory entry is written first; then
\* localStorage.setItem, which throws while the storage refuses writes, in
\* the try block and again in the catch block
setMemoryStorage(key, value) ==
  /\ memoryStorage' = [memoryStorage EXCEPT ![key] = value]
  /\ localStorage' = IF storageFull THEN localStorage
                     ELSE [localStorage EXCEPT ![key] = JSONstringify(value)]

\* setMemoryStorage throws
setMemoryStorageThrows == storageFull

\* removeMemoryStorage(key)
removeMemoryStorage(key) ==
  /\ memoryStorage' = [memoryStorage EXCEPT ![key] = Undefined]
  /\ localStorage' = [localStorage EXCEPT ![key] = Null]

\* the booleans a call resolves with
True == <<"#true">>
False == <<"#false">>

\* the database handle
DB == <<"#db">>

\* await initDB(): the handle is kept, or opened when IndexedDB works
initDB == IF db # Null \/ indexedDB = "works" THEN DB ELSE Null

\* how a request on the object store ends: onsuccess, onerror, or
\* db.transaction throwing
RequestEnds == {"success", "error", "throws"}

Logged(op, key, value, outcome, result) ==
  ops' = Append(ops, [op |-> op, key |-> key, value |-> value,
                      outcome |-> outcome, result |-> result])

\* getItem(key)
getItem(key) ==
  /\ Len(ops) < MaxOps
  /\ db' = initDB
  /\ IF initDB = Null
     THEN Logged("getItem", key, Undefined, "resolved", getMemoryStorage(key))
     ELSE \E r \in RequestEnds :
            Logged("getItem", key, Undefined, "resolved",
                   IF r = "success"
                   THEN IF objectStore[key] # Undefined THEN objectStore[key] ELSE Null
                   ELSE getMemoryStorage(key))
  /\ UNCHANGED <<indexedDB, objectStore, memoryStorage, localStorage, storageFull>>
  /\ UNCHANGED <<renderVars, pageVars, chatVars, timeVars>>

\* setItem(key, value)
setItem(key, value) ==
  /\ Len(ops) < MaxOps
  /\ db' = initDB
  /\ IF initDB = Null
     THEN \* setMemoryStorage in the try block and, when it throws, again in
          \* the catch block, from which the exception leaves setItem
          /\ setMemoryStorage(key, value)
          /\ Logged("setItem", key, value,
                    IF setMemoryStorageThrows THEN "rejected" ELSE "resolved",
                    IF setMemoryStorageThrows THEN Undefined ELSE True)
          /\ UNCHANGED objectStore
     ELSE \E r \in RequestEnds :
            CASE r = "success" ->
                   /\ objectStore' = [objectStore EXCEPT ![key] = value]
                   /\ Logged("setItem", key, value, "resolved", True)
                   /\ UNCHANGED <<memoryStorage, localStorage>>
              [] r = "error" ->
                   \* onerror: an exception of setMemoryStorage leaves the
                   \* event handler and the promise is never settled
                   /\ setMemoryStorage(key, value)
                   /\ Logged("setItem", key, value,
                             IF setMemoryStorageThrows THEN "pending" ELSE "resolved",
                             IF setMemoryStorageThrows THEN Undefined ELSE False)
                   /\ UNCHANGED objectStore
              [] r = "throws" ->
                   /\ setMemoryStorage(key, value)
                   /\ Logged("setItem", key, value,
                             IF setMemoryStorageThrows THEN "rejected" ELSE "resolved",
                             IF setMemoryStorageThrows THEN Undefined ELSE False)
                   /\ UNCHANGED objectStore
  /\ UNCHANGED <<indexedDB, storageFull>>
  /\ UNCHANGED <<renderVars, pageVars, chatVars, timeVars>>

\* removeItem(key)
removeItem(key) ==
  /\ Len(ops) < MaxOps
  /\ db' = initDB
  /\ IF initDB = Null
     THEN /\ removeMemoryStorage(key)
          /\ Logged("removeItem", key, Undefined, "resolved", True)
          /\ UNCHANGED objectStore
     ELSE \E r \in RequestEnds :
            IF r = "success"
            THEN /\ objectStore' = [objectStore EXCEPT ![key] = Undefined]
                 /\ Logged("removeItem", key, Undefined, "resolved", True)
                 /\ UNCHANGED <<memoryStorage, localStorage>>
            ELSE /\ removeMemoryStorage(key)
                 /\ Logged("removeItem", key, Undefined, "resolved", False)
                 /\ UNCHANGED objectStore
  /\ UNCHANGED <<indexedDB, storageFull>>
  /\ UNCHANGED <<renderVars, pageVars, chatVars, timeVars>>

\* the values the page stores: JSON texts and chat ids
StoredValues == {Str("[]"), Str("[\"a\"]"), Str("chat_1")}

\* what an earlier session may have left in localStorage
LeftInLocalStorage ==
  {Empty(Null)} \cup
  {[Empty(Null) EXCEPT ![k] = JSONstringify(v)] : k \in Keys, v \in StoredValues}

InitStore ==
  /\ indexedDB \in {"missing", "fails", "works"}
  /\ db = Null
  /\ objectStore = Empty(Undefined)
  /\ memoryStorage = Empty(Undefined)
  /\ localStorage \in LeftInLocalStorage
  /\ storageFull \in BOOLEAN
  /\ ops = <<>>
  /\ RenderIdle
  /\ PageIdle
  /\ ChatIdle

GetItem == \E k \in Keys : getItem(k)
SetItem == \E k \in Keys, v \in StoredValues : setItem(k, v)
RemoveItem == \E k \in Keys : removeItem(k)

NextStore == GetItem \/ SetItem \/ RemoveItem

SpecStore == InitStore /\ [][NextStore]_vars

(***************************************************************************)
(* The page: render functions, sendMessage, the online and offline events. *)
(* #output is null when the element is missing, else the sequence of its   *)
(* message bubbles; a bubble holds its class, the text given to            *)
(* parseMarkdown or to escapeHtml for it, and for the bubble made by       *)
(* renderReplyStreamInit the number of the send it belongs to.             *)
(***************************************************************************)
MAX_USER_MSGS == 10
MAX_ASSISTANT_MSGS == 10
MAX_TOTAL_MSGS == 21
MAX_DISPLAY_MSGS == 50

\* the container of a bubble that renderReplyStreamInit did not make, and
\* the null container
NoContainer == 0

Bubble(class, content, container) ==
  [class |-> class, text |-> content, container |-> container]

\* document.getElementById("output") when the page has no such element
Missing == <<Bubble("#null", <<>>, 0)>>

\* error.message of an exception raised by the browser
TypeErrorMessage == <<"#TypeError">>

\* what a render function did: #output afterwards, and whether an exception
\* left the function
Done(out) == [output |-> out, escaped |-> FALSE]
Escaped(out) == [output |-> out, escaped |-> TRUE]

\* showError(message): output.appendChild throws when #output is missing
showError(out, message) ==
  IF out = Missing THEN Escaped(out)
  ELSE Done(Append(out, Bubble("error", message, 0)))

\* enforceDisplayLimits(outputElement)
enforceDisplayLimits(out) ==
  IF Len(out) > MAX_DISPLAY_MSGS
  THEN SubSeq(out, Len(out) - MAX_DISPLAY_MSGS + 1, Len(out))
  ELSE out

\* a message content on which the forEach callback throws: an array
\* holding null, as a loaded file can hold
BadContent == <<"#[null]">>

\* the bubble the forEach callback of renderFullConversation appends for a
\* message: the message, or the error bubble of its catch block
messageBubble(msg) ==
  IF msg.content = BadContent
  THEN Bubble("error", Str("Error rendering message: ") \o TypeErrorMessage, 0)
  ELSE Bubble(msg.role, msg.content, 0)

\* renderFullConversation()
renderFullConversation(out, conv) ==
  IF out = Missing
  THEN showError(out, Str("Error rendering conversation: ") \o TypeErrorMessage)
  ELSE Done(enforceDisplayLimits([k \in 1..Len(conv) |-> messageBubble(conv[k])]))

\* renderReplyStreamInit(): the container it returns is the bubble of send id
renderReplyStreamInit(out, id) ==
  IF out = Missing
  THEN showError(out, Str("Error initializing stream display: ") \o TypeErrorMessage)
  ELSE Done(Append(out, Bubble("assistant streaming", Str("Thinking..."), id)))

\* container.innerHTML = parseMarkdown(text || ""), on the container of send
\* id, whether or not it is still under #output
SetContainer(out, id, t) ==
  [k \in 1..Len(out) |->
     IF out[k].container = id THEN [out[k] EXCEPT !.text = IF Falsy(t) THEN <<>> ELSE t]
     ELSE out[k]]

\* renderReplyStreamUpdate(container, text); container is NoContainer or
\* the number of the send whose bubble it is
renderReplyStreamUpdate(out, container, t) ==
  IF container = NoContainer
  THEN showError(out, Str("Error updating stream display: Container element is null"))
  ELSE IF out = Missing
  THEN showError(out, Str("Error updating stream display: ") \o TypeErrorMessage)
  ELSE Done(enforceDisplayLimits(SetContainer(out, container, t)))

\* the first index of a message of a role, 0 when there is none
IndexOfRole(conv, role) ==
  IF \E k \in 1..Len(conv) : conv[k].role = role
  THEN Min({k \in 1..Len(conv) : conv[k].role = role})
  ELSE 0

\* conversation.splice(index, 1), nothing for index -1
SpliceOut(conv, k) ==
  IF k = 0 THEN conv ELSE SubSeq(conv, 1, k - 1) \o SubSeq(conv, k + 1, Len(conv))

\* the loop removing the oldest message of a role n times
RECURSIVE RemoveOldest(_,_,_)
RemoveOldest(conv, role, n) ==
  IF n <= 0 THEN conv
  ELSE RemoveOldest(SpliceOut(conv, IndexOfRole(conv, role)), role, n - 1)

CountRole(conv, role) == Cardinality({k \in 1..Len(conv) : conv[k].role = role})

\* the newest messages dropped in place of the oldest
PopToLimit(conv) ==
  IF Len(conv) > MAX_TOTAL_MSGS THEN SubSeq(conv, 1, MAX_TOTAL_MSGS) ELSE conv

\* the while loop shifting messages until the total limit holds
ShiftToLimit(conv) ==
  IF Len(conv) > MAX_TOTAL_MSGS
  THEN SubSeq(conv, Len(conv) - MAX_TOTAL_MSGS + 1, Len(conv))
  ELSE conv

\* enforceContextLimits()
enforceContextLimits(conv) ==
  IF Len(conv) <= MAX_TOTAL_MSGS THEN conv
  ELSE ShiftToLimit(
         RemoveOldest(
           RemoveOldest(conv, "user", CountRole(conv, "user") - MAX_USER_MSGS),
           "assistant", CountRole(conv, "assistant") - MAX_ASSISTANT_MSGS))

(***************************************************************************)
(* chatHistory: the list of chats, the newest first.  A chat is its id and *)
(* its conversation; its title and its timestamp, which no function reads  *)
(* back, are left out.  generateChatId gives ids that were never given:    *)
(* the numbers nextChatId, nextChatId + 1, ...                             *)
(***************************************************************************)
\* the most chats chatHistory.slice(0, 20) keeps
MaxChats == 20

Chat(id, conv) == [id |-> id, conversation |-> conv]

\* chatHistory.findIndex(chat => chat.id === id), 0 for -1
ChatIndex(history, id) ==
  IF \E k \in 1..Len(history) : history[k].id = id
  THEN Min({k \in 1..Len(history) : history[k].id = id})
  ELSE 0

\* the history kept without the slice
KeepAll(history) == history

\* if (chatHistory.length > 20) chatHistory = chatHistory.slice(0, 20)
KeepNewest(history) ==
  IF Len(history) > MaxChats THEN SubSeq(history, 1, MaxChats) ELSE history

\* chatHistory after updateCurrentChatInHistory()
updateCurrentChatInHistory(history, current, conv) ==
  IF current = NoChat THEN history
  ELSE IF ChatIndex(history, current) # 0
  THEN [history EXCEPT ![ChatIndex(history, current)].conversation = conv]
  ELSE KeepNewest(<<Chat(current, conv)>> \o history)

\* what saveChatHistory() stores
saveChatHistory(history, current) ==
  [stored EXCEPT !.chatHistory = history, !.currentChatId = current]

\* the current conversation not put into the history before a switch
NotSavedFirst(history, current, conv) == history

\* if (currentChatId && conversation.length > 0) await updateCurrentChatInHistory()
SavedFirst(history, current, conv) ==
  IF current # NoChat /\ conv # <<>>
  THEN updateCurrentChatInHistory(history, current, conv)
  ELSE history

\* createNewChat() with fresh the id generateChatId returns
createNewChat(history, current, conv, fresh) ==
  [chatHistory |-> KeepNewest(<<Chat(fresh, <<>>)>> \o SavedFirst(history, current, conv)),
   currentChatId |-> fresh,
   conversation |-> <<>>,
   made |-> TRUE]

\* loadChat(chatId): nothing without a chat of that id
loadChat(history, current, conv, chatId) ==
  IF ChatIndex(history, chatId) = 0
  THEN [chatHistory |-> history, currentChatId |-> current, conversation |-> conv,
        found |-> FALSE]
  ELSE [chatHistory |-> SavedFirst(history, current, conv),
        currentChatId |-> chatId,
        conversation |->
          LET saved == SavedFirst(history, current, conv)
          IN  IF ChatIndex(saved, chatId) # 0
              THEN saved[ChatIndex(saved, chatId)].conversation
              ELSE history[ChatIndex(history, chatId)].conversation,
        found |-> TRUE]

\* chatHistory.filter(chat => chat.id !== chatId)
WithoutChat(history, chatId) == SelectSeq(history, LAMBDA chat : chat.id # chatId)

\* deleteChat(chatId) after the confirm dialog was accepted
deleteChat(history, current, conv, chatId, fresh) ==
  IF current # chatId
  THEN [chatHistory |-> WithoutChat(history, chatId), currentChatId |-> current,
        conversation |-> conv, made |-> FALSE]
  ELSE IF WithoutChat(history, chatId) # <<>>
  THEN [chatHistory |-> WithoutChat(history, chatId),
        currentChatId |-> WithoutChat(history, chatId)[1].id,
        conversation |-> WithoutChat(history, chatId)[1].conversation,
        made |-> FALSE]
  ELSE createNewChat(WithoutChat(history, chatId), current, conv, fresh)

\* initializeData() on what is stored, with fresh the id generateChatId
\* returns; failed: initDB or a read rejects, or the stored history does not
\* parse
initializeData(history, current, fresh, failed) ==
  IF failed
  THEN [chatHistory |-> <<>>, currentChatId |-> NoChat, conversation |-> <<>>,
        made |-> FALSE]
  ELSE IF current # NoChat /\ ChatIndex(history, current) # 0
  THEN [chatHistory |-> history, currentChatId |-> current,
        conversation |-> history[ChatIndex(history, current)].conversation,
        made |-> FALSE]
  ELSE IF history # <<>>
  THEN [chatHistory |-> history, currentChatId |-> history[1].id,
        conversation |-> history[1].conversation, made |-> FALSE]
  ELSE [chatHistory |-> <<Chat(fresh, <<>>)>>, currentChatId |-> fresh,
        conversation |-> <<>>, made |-> TRUE]

(***************************************************************************)
(* sendMessage.  A send is one invocation: it runs from the click to its   *)
(* first await that waits for something outside the page (the reply        *)
(* stream), takes one step for each part of the stream, and one after the  *)
(* save that updateCurrentChatInHistory awaits.  sends keeps, for each     *)
(* invocation, where it is, its local reply, the parts that arrived, the   *)
(* texts it gave to renderReplyStreamUpdate and the content it pushed.     *)
(***************************************************************************)
MaxSends == 2
MaxParts == 2

Prompts == {<<>>, Str(" "), Str("hi")}

\* part?.text of a stream part: a text, the empty text, or undefined for a
\* part without text
PartTexts == {Str("a"), Str("b"), <<>>, Undefined}

\* the offline test left out
OfflineIgnored == FALSE

\* if (!isOnline)
Offline == ~isOnline

\* the increment alone in place of the accumulated reply
Increment(reply, t) == t

\* reply += part.text
Accumulate(reply, t) == reply \o t

Send(at, how) ==
  [pc |-> at, how |-> how, reply |-> <<>>, parts |-> <<>>, shown |-> <<>>,
   pushed |-> Null]

Message(role, content) == [role |-> role, content |-> content]

InFlight == {i \in 1..Len(sends) : sends[i].pc # "returned"}

\* the catch block of sendMessage: the message goes into the last bubble
\* of #output
Caught(out, message) ==
  IF out = Missing \/ out = <<>> THEN out
  ELSE [out EXCEPT ![Len(out)].text = Str("Error: ") \o message]

\* the prompt field changes
Type ==
  /\ \E p \in Prompts : prompt # p /\ prompt' = p
  /\ UNCHANGED <<isOnline, disabled, conversation, chatHistory, sends, output,
                 renders, chatCalls, saveTimeout, stored>>
  /\ UNCHANGED <<renderVars, storeVars, chatVars, timeVars>>

\* the prompt is empty after trim: return, and the finally block
ClickEmpty ==
  /\ disabled' = FALSE
  /\ sends' = Append(sends, Send("returned", "empty"))
  /\ UNCHANGED <<isOnline, prompt, conversation, chatHistory, output, renders,
                 chatCalls, saveTimeout, stored>>

\* offline: showError, return, and the finally block; an exception of
\* showError ends in the catch block
ClickOffline ==
  /\ output' = showError(output,
         Str("You are currently offline. Please reconnect to send messages.")).output
  /\ disabled' = FALSE
  /\ sends' = Append(sends, Send("returned", "offline"))
  /\ UNCHANGED <<isOnline, prompt, conversation, chatHistory, renders, chatCalls,
                 saveTimeout, stored>>

\* #output after renderFullConversation and renderReplyStreamInit of send id
StreamStarted(out, conv, id) ==
  renderReplyStreamInit(renderFullConversation(out, conv).output, id)

\* online: the user message is pushed, the conversation rendered, the
\* stream bubble made and the chat called; without a container the send
\* ends in its catch block
ClickSend ==
  /\ conversation' =
       enforceContextLimits(Append(conversation, Message("user", trim(prompt))))
  /\ saveTimeout' = TRUE
  /\ renders' = renders \o
       << [fn |-> "renderFullConversation",
           escaped |-> renderFullConversation(output, conversation').escaped],
          [fn |-> "renderReplyStreamInit",
           escaped |-> StreamStarted(output, conversation', Len(sends) + 1).escaped] >>
  /\ IF output = Missing
     THEN /\ UNCHANGED <<prompt, output, chatCalls>>
          /\ disabled' = FALSE
          /\ sends' = Append(sends, Send("returned", "failed"))
     ELSE /\ prompt' = <<>>
          /\ output' = StreamStarted(output, conversation', Len(sends) + 1).output
          /\ chatCalls' = chatCalls + 1
          /\ disabled' = TRUE
          /\ sends' = Append(sends, Send("stream", "sent"))
  /\ UNCHANGED <<isOnline, chatHistory, stored>>

\* a click on the generate button, which a disabled button does not take
Click ==
  /\ ~disabled
  /\ Len(sends) < MaxSends
  /\ IF trim(prompt) = <<>> THEN ClickEmpty
     ELSE IF Offline THEN ClickOffline
     ELSE ClickSend
  /\ UNCHANGED <<renderVars, storeVars, chatVars, timeVars>>

\* the record of send i after a part with text t
Streamed(s, t, escaped) ==
  IF Falsy(t) THEN [s EXCEPT !.parts = Append(@, t)]
  ELSE [s EXCEPT !.parts = Append(@, t),
                 !.reply = Accumulate(@, t),
                 !.shown = Append(@, Accumulate(s.reply, t)),
                 !.pc = IF escaped THEN "returned" ELSE @,
                 !.how = IF escaped THEN "failed" ELSE @]

\* one round of the for await loop of send i
Part(i) ==
  /\ sends[i].pc = "stream"
  /\ Len(sends[i].parts) < MaxParts
  /\ \E t \in PartTexts :
       IF Falsy(t)
       THEN /\ sends' = [sends EXCEPT ![i] = Streamed(@, t, FALSE)]
            /\ UNCHANGED <<output, renders, disabled>>
       ELSE /\ sends' = [sends EXCEPT ![i] = Streamed(@, t,
                 renderReplyStreamUpdate(output, i, Accumulate(sends[i].reply, t)).escaped)]
            /\ output' =
                 renderReplyStreamUpdate(output, i, Accumulate(sends[i].reply, t)).output
            /\ renders' = Append(renders,
                 [fn |-> "renderReplyStreamUpdate",
                  escaped |-> sends'[i].pc = "returned"])
            /\ disabled' = IF sends'[i].pc = "returned" THEN FALSE ELSE disabled
  /\ UNCHANGED <<isOnline, prompt, conversation, chatHistory, chatCalls,
                 saveTimeout, stored>>
  /\ UNCHANGED <<renderVars, storeVars, chatVars, timeVars>>

\* the stream of send i ends: the reply is pushed, the save scheduled and
\* the chat of the history updated, up to the save it awaits
StreamEnds(i) ==
  /\ sends[i].pc = "stream"
  /\ conversation' =
       enforceContextLimits(Append(conversation, Message("assistant", sends[i].reply)))
  /\ saveTimeout' = TRUE
  /\ chatHistory' = updateCurrentChatInHistory(chatHistory, currentChatId, conversation')
  /\ sends' = [sends EXCEPT ![i].pc = "saving", ![i].pushed = sends[i].reply]
  /\ UNCHANGED <<isOnline, disabled, prompt, output, renders, chatCalls, stored>>
  /\ UNCHANGED <<renderVars, storeVars, chatVars, timeVars>>

\* the save of send i is done: the bubble stops streaming, and the finally
\* block
SendReturns(i) ==
  /\ sends[i].pc = "saving"
  /\ stored' = saveChatHistory(chatHistory, currentChatId)
  /\ output' = [k \in 1..Len(output) |->
                  IF output[k].container = i
                  THEN [output[k] EXCEPT !.class = "assistant"] ELSE output[k]]
  /\ disabled' = FALSE
  /\ sends' = [sends EXCEPT ![i].pc = "returned"]
  /\ UNCHANGED <<isOnline, prompt, conversation, chatHistory, renders, chatCalls,
                 saveTimeout>>
  /\ UNCHANGED <<renderVars, storeVars, chatVars, timeVars>>

\* the chat call or the stream of send i throws: the catch block, and the
\* finally block
StreamFails(i) ==
  /\ sends[i].pc = "stream"
  /\ output' = Caught(output, Str("Unknown error"))
  /\ disabled' = FALSE
  /\ sends' = [sends EXCEPT ![i].pc = "returned", ![i].how = "failed"]
  /\ UNCHANGED <<isOnline, prompt, conversation, chatHistory, renders, chatCalls,
                 saveTimeout, stored>>
  /\ UNCHANGED <<renderVars, storeVars, chatVars, timeVars>>

\* the offline notice of the listener
OfflineNotice ==
  Bubble("system offline-notice",
         Str("You are currently offline. Chat history is available, but new messages require connection."),
         0)

\* the offline event: updateOnlineStatus, then the notice when the button
\* is not disabled
GoOffline ==
  /\ isOnline
  /\ isOnline' = FALSE
  /\ disabled' = ~isOnline'
  /\ output' = IF disabled' # TRUE /\ output # Missing
               THEN Append(output, OfflineNotice) ELSE output
  /\ UNCHANGED <<prompt, conversation, chatHistory, sends, renders, chatCalls,
                 saveTimeout, stored>>
  /\ UNCHANGED <<renderVars, storeVars, chatVars, timeVars>>

\* the online event: updateOnlineStatus
GoOnline ==
  /\ ~isOnline
  /\ isOnline' = TRUE
  /\ disabled' = ~isOnline'
  /\ UNCHANGED <<prompt, conversation, chatHistory, sends, output, renders,
                 chatCalls, saveTimeout, stored>>
  /\ UNCHANGED <<renderVars, storeVars, chatVars, timeVars>>

\* the timer of autoSave fires
AutoSaveTimer ==
  /\ saveTimeout
  /\ saveTimeout' = FALSE
  /\ conversation' = enforceContextLimits(conversation)
  /\ stored' = [saveChatHistory(chatHistory, currentChatId)
                 EXCEPT !.conversation = conversation']
  /\ UNCHANGED <<isOnline, disabled, prompt, chatHistory, sends, output, renders,
                 chatCalls>>
  /\ UNCHANGED <<renderVars, storeVars, chatVars, timeVars>>

\* the page after DOMContentLoaded with nothing stored: initializeData has
\* made and saved a new chat, updateOnlineStatus has set the button from
\* navigator.onLine
InitPage ==
  /\ RenderIdle /\ StoreIdle
  /\ isOnline \in BOOLEAN
  /\ disabled = ~isOnline
  /\ prompt = <<>>
  /\ conversation = <<>>
  /\ chatHistory = <<Chat(1, <<>>)>>
  /\ currentChatId = 1
  /\ nextChatId = 2
  /\ lastCall = NoCall
  /\ pending = <<>>
  /\ timers = <<>>
  /\ now = 0
  /\ sends = <<>>
  /\ output = <<>>
  /\ renders = <<>>
  /\ chatCalls = 0
  /\ saveTimeout = FALSE
  /\ stored = [conversation |-> Null, chatHistory |-> chatHistory, currentChatId |-> 1]

NextPage ==
  \/ Type
  \/ Click
  \/ \E i \in 1..Len(sends) : Part(i)
  \/ \E i \in 1..Len(sends) : StreamEnds(i)
  \/ \E i \in 1..Len(sends) : SendReturns(i)
  \/ \E i \in 1..Len(sends) : StreamFails(i)
  \/ GoOffline
  \/ GoOnline
  \/ AutoSaveTimer

SpecPage == InitPage /\ [][NextPage]_vars

(***************************************************************************)
(* The conversation under enforceContextLimits: turns of sendMessage that  *)
(* end with a reply or fail after the user message, the auto-save timer,   *)
(* and long conversations loaded from a file.  A turn is taken as two      *)
(* steps, the one that pushes the user message and the one that pushes the *)
(* reply; every message has a content of its own.  lastCall keeps the      *)
(* conversation before and after the last call of enforceContextLimits.    *)
(***************************************************************************)
MaxTurns == 3

\* enforceContextLimits() on conv, as lastCall keeps it
Limited(conv) ==
  [fn |-> "enforceContextLimits", before |-> conv, after |-> enforceContextLimits(conv)]

\* n messages numbered from 1, the k-th of role roleOf[k]
Numbered(n, roleOf(_)) == [k \in 1..n |-> Message(roleOf(k), <<"m">> \o ToDigits(k))]

Alternating(k) == IF k % 2 = 1 THEN "user" ELSE "assistant"
OnlyUser(k) == "user"
OnlySystem(k) == "system"
UserHeavy(k) == IF k <= 15 THEN "user" ELSE "assistant"
AssistantFirst(k) == IF k <= 12 THEN "assistant" ELSE "user"
ThreeRoles(k) == IF k % 3 = 1 THEN "user" ELSE IF k % 3 = 2 THEN "assistant" ELSE "system"

\* arrays a conversation file can hold, longer than the limits
LongConversations ==
  {Numbered(20, Alternating), Numbered(21, Alternating), Numbered(22, Alternating),
   Numbered(30, Alternating), Numbered(11, OnlyUser), Numbered(22, OnlyUser),
   Numbered(25, OnlyUser), Numbered(21, UserHeavy), Numbered(22, UserHeavy),
   Numbered(22, AssistantFirst), Numbered(24, ThreeRoles), Numbered(30, OnlySystem)}

\* the record of a turn: the chat that was current when the user message
\* was pushed, and the chat that is current when the reply is pushed
Turn(chat) ==
  [pc |-> "stream", how |-> "sent", chat |-> chat, replied |-> FALSE,
   repliedIn |-> NoChat]

\* sendMessage to its first await on the reply: the user message is pushed,
\* the limits enforced, the save scheduled, the conversation rendered and
\* the stream bubble made
SendUser ==
  /\ ~disabled
  /\ chatCalls < MaxTurns
  /\ lastCall' = Limited(Append(conversation,
                   Message("user", <<"u">> \o ToDigits(chatCalls + 1))))
  /\ conversation' = lastCall'.after
  /\ saveTimeout' = TRUE
  /\ output' = StreamStarted(output, conversation', chatCalls + 1).output
  /\ chatCalls' = chatCalls + 1
  /\ disabled' = TRUE
  /\ prompt' = <<>>
  /\ sends' = Append(sends, Turn(currentChatId))
  /\ UNCHANGED <<isOnline, chatHistory, renders, stored>>
  /\ UNCHANGED <<currentChatId, nextChatId, pending>>
  /\ UNCHANGED <<renderVars, storeVars, timeVars>>

\* the reply has streamed: it is shown and pushed, the limits enforced, the
\* save scheduled, the chat updated and saved, and the finally block
SendReplied ==
  /\ disabled
  /\ lastCall' = Limited(Append(conversation,
                   Message("assistant", <<"r">> \o ToDigits(chatCalls))))
  /\ conversation' = lastCall'.after
  /\ saveTimeout' = TRUE
  /\ output' = renderReplyStreamUpdate(output, chatCalls, <<"r">> \o ToDigits(chatCalls)).output
  /\ chatHistory' = updateCurrentChatInHistory(chatHistory, currentChatId, conversation')
  /\ stored' = saveChatHistory(chatHistory', currentChatId)
  /\ disabled' = FALSE
  /\ sends' = [sends EXCEPT ![Len(sends)].pc = "returned",
                            ![Len(sends)].replied = TRUE,
                            ![Len(sends)].repliedIn = currentChatId]
  /\ UNCHANGED <<isOnline, prompt, renders, chatCalls>>
  /\ UNCHANGED <<currentChatId, nextChatId, pending>>
  /\ UNCHANGED <<renderVars, storeVars, timeVars>>

\* the chat call fails: the catch block and the finally block; the user
\* message stays in the conversation
SendFailed ==
  /\ disabled
  /\ output' = Caught(output, Str("Unknown error"))
  /\ disabled' = FALSE
  /\ sends' = [sends EXCEPT ![Len(sends)].pc = "returned",
                            ![Len(sends)].how = "failed"]
  /\ UNCHANGED <<isOnline, prompt, conversation, chatHistory, renders,
                 chatCalls, saveTimeout, stored>>
  /\ UNCHANGED <<renderVars, storeVars, chatVars, timeVars>>

\* the timer of autoSave fires
LimitsTimer ==
  /\ saveTimeout
  /\ saveTimeout' = FALSE
  /\ lastCall' = Limited(conversation)
  /\ conversation' = lastCall'.after
  /\ stored' = [saveChatHistory(chatHistory, currentChatId)
                 EXCEPT !.conversation = conversation']
  /\ UNCHANGED <<isOnline, disabled, prompt, chatHistory, sends, output, renders,
                 chatCalls>>
  /\ UNCHANGED <<currentChatId, nextChatId, pending>>
  /\ UNCHANGED <<renderVars, storeVars, timeVars>>

\* reader.onload of loadFromFile with a long array, before any send
LoadLong ==
  /\ chatCalls = 0
  /\ nextChatId = 2
  /\ \E loaded \in LongConversations :
       /\ conversation' = loaded
       /\ output' = renderFullConversation(output, loaded).output
       /\ chatHistory' =
            KeepNewest(<<Chat(nextChatId, loaded)>> \o
              updateCurrentChatInHistory(chatHistory, currentChatId, conversation))
       /\ stored' = [saveChatHistory(chatHistory', nextChatId)
                      EXCEPT !.conversation = loaded]
  /\ currentChatId' = nextChatId
  /\ nextChatId' = nextChatId + 1
  /\ lastCall' = [fn |-> "loadFromFile"]
  /\ UNCHANGED <<isOnline, disabled, prompt, sends, renders, chatCalls, saveTimeout>>
  /\ UNCHANGED pending
  /\ UNCHANGED <<renderVars, storeVars, timeVars>>

InitLimits ==
  /\ InitPage
  /\ isOnline

NextLimits == SendUser \/ SendReplied \/ SendFailed \/ LimitsTimer \/ LoadLong

SpecLimits == InitLimits /\ [][NextLimits]_vars

(***************************************************************************)
(* The render functions called on a page whose #output may be missing, on  *)
(* conversations loaded from a file, and with a container that may be      *)
(* null.  renders keeps each call: the function, #output before and after, *)
(* the conversation or the container it was given, and whether an          *)
(* exception left the function.                                            *)
(***************************************************************************)
MaxRenders == 3

\* arrays a conversation file can hold
LoadedConversations ==
  { <<>>,
    <<Message("user", Str("hi"))>>,
    <<Message("user", Str("hi")), Message("assistant", Str("a"))>>,
    <<Message("user", BadContent)>>,
    <<Message("user", Str("hi")), Message("assistant", BadContent),
      Message("user", Str("x"))>> }

Rendered(fn, out, conv, container, r) ==
  [fn |-> fn, before |-> out, conversation |-> conv, container |-> container,
   after |-> r.output, escaped |-> r.escaped]

\* reader.onload of loadFromFile with an array: the current chat is
\* updated, the conversation replaced, stored and rendered, and a new chat
\* made for it; an exception of renderFullConversation ends in the catch
\* block, before the chat is made
LoadFromFile ==
  /\ Len(renders) < MaxRenders
  /\ \E loaded \in LoadedConversations :
       /\ conversation' = loaded
       /\ output' = renderFullConversation(output, loaded).output
       /\ renders' = Append(renders,
            Rendered("renderFullConversation", output, loaded, NoContainer,
                     renderFullConversation(output, loaded)))
       /\ IF renderFullConversation(output, loaded).escaped
          THEN /\ chatHistory' =
                    updateCurrentChatInHistory(chatHistory, currentChatId, conversation)
               /\ UNCHANGED <<currentChatId, nextChatId>>
          ELSE /\ chatHistory' =
                    KeepNewest(<<Chat(nextChatId, loaded)>> \o
                      updateCurrentChatInHistory(chatHistory, currentChatId, conversation))
               /\ currentChatId' = nextChatId
               /\ nextChatId' = nextChatId + 1
       /\ stored' = [saveChatHistory(chatHistory', currentChatId')
                      EXCEPT !.conversation = loaded]
  /\ lastCall' = [fn |-> "loadFromFile"]
  /\ UNCHANGED <<isOnline, disabled, prompt, sends, chatCalls, saveTimeout>>
  /\ UNCHANGED pending
  /\ UNCHANGED <<renderVars, storeVars, timeVars>>

\* a call of renderReplyStreamInit; the container is numbered by the call
CallStreamInit ==
  /\ Len(renders) < MaxRenders
  /\ output' = renderReplyStreamInit(output, Len(renders) + 1).output
  /\ renders' = Append(renders,
       Rendered("renderReplyStreamInit", output, conversation, Len(renders) + 1,
                renderReplyStreamInit(output, Len(renders) + 1)))
  /\ UNCHANGED <<isOnline, disabled, prompt, conversation, chatHistory, sends,
                 chatCalls, saveTimeout, stored>>
  /\ UNCHANGED <<renderVars, storeVars, chatVars, timeVars>>

\* a call of renderReplyStreamUpdate with a null container or with one
\* that renderReplyStreamInit returned
CallStreamUpdate ==
  /\ Len(renders) < MaxRenders
  /\ \E container \in {NoContainer} \cup
         {k \in 1..Len(renders) : renders[k].fn = "renderReplyStreamInit"
                                   /\ ~renders[k].escaped} :
     \E t \in {Str("a"), <<>>} :
       /\ output' = renderReplyStreamUpdate(output, container, t).output
       /\ renders' = Append(renders,
            Rendered("renderReplyStreamUpdate", output, conversation, container,
                     renderReplyStreamUpdate(output, container, t)))
  /\ UNCHANGED <<isOnline, disabled, prompt, conversation, chatHistory, sends,
                 chatCalls, saveTimeout, stored>>
  /\ UNCHANGED <<renderVars, storeVars, chatVars, timeVars>>

InitRender ==
  /\ RenderIdle /\ StoreIdle
  /\ isOnline = TRUE
  /\ disabled = FALSE
  /\ prompt = <<>>
  /\ conversation = <<>>
  /\ chatHistory = <<Chat(1, <<>>)>>
  /\ currentChatId = 1
  /\ nextChatId = 2
  /\ lastCall = NoCall
  /\ pending = <<>>
  /\ timers = <<>>
  /\ now = 0
  /\ sends = <<>>
  /\ output \in {Missing, <<>>}
  /\ renders = <<>>
  /\ chatCalls = 0
  /\ saveTimeout = FALSE
  /\ stored = [conversation |-> Null, chatHistory |-> chatHistory, currentChatId |-> 1]

NextRender == LoadFromFile \/ CallStreamInit \/ CallStreamUpdate

SpecRender == InitRender /\ [][NextRender]_vars

(***************************************************************************)
(* The chat list: the page loads from a stored history, and chats are      *)
(* made, loaded, deleted and cleared, conversations loaded from files, and *)
(* a message sent.  Chat ids are numbers, the stored chats numbered in the *)
(* order of the list and the ids generateChatId makes numbered after them. *)
(* The clicks are on the first, the second and the last chat of the list.  *)
(* renders logs every call of renderFullConversation the handlers make.    *)
(***************************************************************************)
MaxChatTurns == 1
MaxChatOps == 2

\* chat k of a stored history: the odd chats have a message
StoredChat(k) ==
  Chat(k, IF k % 2 = 1 THEN <<Message("user", <<"h">> \o ToDigits(k))>> ELSE <<>>)

StoredHistories == {[k \in 1..n |-> StoredChat(k)] : n \in {0, 1, 2, MaxChats}}

\* the first id generateChatId makes
FirstNewId == MaxChats + 1

\* the chats of the list that are clicked
Clickable(history) ==
  {history[k].id : k \in {1, 2, Len(history)} \cap (1..Len(history))}

RenderedFull(out, conv) ==
  Rendered("renderFullConversation", out, conv, NoContainer,
           renderFullConversation(out, conv))

\* a click on New Chat
CreateNewChat ==
  /\ Len(renders) < MaxChatOps
  /\ LET r == createNewChat(chatHistory, currentChatId, conversation, nextChatId)
     IN  /\ chatHistory' = r.chatHistory
         /\ currentChatId' = r.currentChatId
         /\ conversation' = r.conversation
         /\ stored' = saveChatHistory(r.chatHistory, r.currentChatId)
         /\ output' = renderFullConversation(output, r.conversation).output
         /\ renders' = Append(renders, RenderedFull(output, r.conversation))
  /\ nextChatId' = nextChatId + 1
  /\ lastCall' = [fn |-> "createNewChat"]
  /\ UNCHANGED <<isOnline, disabled, prompt, sends, chatCalls, saveTimeout>>
  /\ UNCHANGED pending
  /\ UNCHANGED <<renderVars, storeVars, timeVars>>

\* a click on a chat of the list
LoadChat ==
  /\ Len(renders) < MaxChatOps
  /\ \E chatId \in Clickable(chatHistory) :
       LET r == loadChat(chatHistory, currentChatId, conversation, chatId)
       IN  /\ chatHistory' = r.chatHistory
           /\ currentChatId' = r.currentChatId
           /\ conversation' = r.conversation
           /\ stored' = saveChatHistory(r.chatHistory, r.currentChatId)
           /\ output' = renderFullConversation(output, r.conversation).output
           /\ renders' = Append(renders, RenderedFull(output, r.conversation))
           /\ lastCall' =
                [fn |-> "loadChat", id |-> chatId,
                 from |-> currentChatId, had |-> conversation,
                 prevFrom |-> IF lastCall.fn = "loadChat" THEN lastCall.from ELSE NoChat,
                 prevHad |-> IF lastCall.fn = "loadChat" THEN lastCall.had ELSE <<>>]
  /\ UNCHANGED <<isOnline, disabled, prompt, sends, chatCalls, saveTimeout, nextChatId>>
  /\ UNCHANGED pending
  /\ UNCHANGED <<renderVars, storeVars, timeVars>>

\* a click on the delete button of a chat, and the dialog accepted
DeleteChat ==
  /\ Len(renders) < MaxChatOps
  /\ \E chatId \in Clickable(chatHistory) :
       LET r == deleteChat(chatHistory, currentChatId, conversation, chatId, nextChatId)
       IN  /\ chatHistory' = r.chatHistory
           /\ currentChatId' = r.currentChatId
           /\ conversation' = r.conversation
           /\ stored' = saveChatHistory(r.chatHistory, r.currentChatId)
           /\ output' = renderFullConversation(output, r.conversation).output
           /\ renders' =
                IF r.made
                THEN renders \o
                       <<RenderedFull(output, r.conversation),
                         RenderedFull(renderFullConversation(output, r.conversation).output,
                                      r.conversation)>>
                ELSE Append(renders, RenderedFull(output, r.conversation))
           /\ nextChatId' = IF r.made THEN nextChatId + 1 ELSE nextChatId
           /\ lastCall' = [fn |-> "deleteChat", id |-> chatId,
                           current |-> currentChatId, had |-> conversation,
                           before |-> chatHistory]
  /\ UNCHANGED <<isOnline, disabled, prompt, sends, chatCalls, saveTimeout>>
  /\ UNCHANGED pending
  /\ UNCHANGED <<renderVars, storeVars, timeVars>>

\* a click on Clear Chat, and the dialog accepted
ClearCurrentChat ==
  /\ conversation # <<>>
  /\ conversation' = <<>>
  /\ output' = <<>>
  /\ chatHistory' = updateCurrentChatInHistory(chatHistory, currentChatId, <<>>)
  /\ stored' = IF currentChatId = NoChat
               THEN [stored EXCEPT !.conversation = Null]
               ELSE [saveChatHistory(chatHistory', currentChatId)
                     EXCEPT !.conversation = Null]
  /\ lastCall' = [fn |-> "clearCurrentChat"]
  /\ UNCHANGED <<isOnline, disabled, prompt, sends, renders, chatCalls, saveTimeout>>
  /\ UNCHANGED <<currentChatId, nextChatId, pending>>
  /\ UNCHANGED <<renderVars, storeVars, timeVars>>

\* a conversation file is loaded
ChatLoadFromFile ==
  /\ Len(renders) < MaxChatOps
  /\ LoadFromFile

\* a message is sent
ChatSendUser ==
  /\ chatCalls < MaxChatTurns
  /\ SendUser

\* the page is loaded again: DOMContentLoaded runs initializeData on what is
\* stored and renders the conversation
InitializeData ==
  /\ Len(renders) < MaxChatOps
  /\ \E failed \in BOOLEAN :
       LET r == initializeData(stored.chatHistory, stored.currentChatId, nextChatId, failed)
       IN  /\ chatHistory' = r.chatHistory
           /\ currentChatId' = r.currentChatId
           /\ conversation' = r.conversation
           /\ stored' = IF r.made THEN saveChatHistory(r.chatHistory, r.currentChatId)
                        ELSE stored
           /\ output' = renderFullConversation(<<>>, r.conversation).output
           /\ renders' = Append(renders, RenderedFull(<<>>, r.conversation))
           /\ nextChatId' = IF r.made THEN nextChatId + 1 ELSE nextChatId
           /\ lastCall' = [fn |-> "initializeData", failed |-> failed]
  /\ disabled' = FALSE
  /\ prompt' = <<>>
  /\ saveTimeout' = FALSE
  /\ UNCHANGED <<isOnline, sends, chatCalls>>
  /\ pending' = <<>>
  /\ UNCHANGED <<renderVars, storeVars, timeVars>>

\* the page after DOMContentLoaded, loaded from a stored history
InitChats ==
  /\ RenderIdle /\ StoreIdle
  /\ isOnline = TRUE
  /\ disabled = FALSE
  /\ prompt = <<>>
  /\ sends = <<>>
  /\ renders = <<>>
  /\ chatCalls = 0
  /\ saveTimeout = FALSE
  /\ lastCall = NoCall
  /\ pending = <<>>
  /\ timers = <<>>
  /\ now = 0
  /\ \E history \in StoredHistories :
       \E current \in {NoChat, MaxChats + 1} \cup Clickable(history) :
         LET r == initializeData(history, current, FirstNewId, FALSE)
         IN  /\ chatHistory = r.chatHistory
             /\ currentChatId = r.currentChatId
             /\ conversation = r.conversation
             /\ output = renderFullConversation(<<>>, r.conversation).output
             /\ nextChatId = IF r.made THEN FirstNewId + 1 ELSE FirstNewId
             /\ stored = [conversation |-> Null,
                          chatHistory |-> IF r.made THEN r.chatHistory ELSE history,
                          currentChatId |-> IF r.made THEN r.currentChatId ELSE current]

NextChats ==
  \/ CreateNewChat \/ LoadChat \/ DeleteChat \/ ClearCurrentChat \/ ChatLoadFromFile
  \/ InitializeData \/ ChatSendUser \/ SendReplied \/ SendFailed

SpecChats == InitChats /\ [][NextChats]_vars

(***************************************************************************)
(* The chat handlers with their awaits.  loadChat and createNewChat await  *)
(* updateCurrentChatInHistory, which awaits the storage after it has       *)
(* written the list, before they set currentChatId; a handler at that      *)
(* await is kept in pending, and other clicks are handled before it goes   *)
(* on.  The suspended handlers go on in the order they started.  A handler *)
(* that would itself await before it sets currentChatId starts as a        *)
(* suspended one while another is suspended.  The interleavings taken are  *)
(* those in which no handler runs while the chat a suspended loadChat      *)
(* holds is current, so that its conversation is the one loadChat found.   *)
(***************************************************************************)
Suspended(fn, chat) == [fn |-> fn, chat |-> chat]

\* the current conversation is saved first: the handler awaits
SavesFirst == currentChatId # NoChat /\ conversation # <<>>

Undisturbed ==
  \A k \in 1..Len(pending) :
    pending[k].fn = "loadChat" => pending[k].chat.id # currentChatId

\* loadChat(chatId) to its await of updateCurrentChatInHistory; the chat
\* found is held as updateCurrentChatInHistory leaves it
LoadChatAwaits ==
  /\ Len(renders) + Len(pending) < MaxChatOps
  /\ SavesFirst
  /\ \E chatId \in Clickable(chatHistory) :
       pending' = Append(pending,
         Suspended("loadChat",
                   IF chatId = currentChatId THEN Chat(chatId, conversation)
                   ELSE chatHistory[ChatIndex(chatHistory, chatId)]))
  /\ chatHistory' = updateCurrentChatInHistory(chatHistory, currentChatId, conversation)
  /\ stored' = saveChatHistory(chatHistory', currentChatId)
  /\ lastCall' = [fn |-> "updateCurrentChatInHistory"]
  /\ UNCHANGED <<isOnline, disabled, prompt, conversation, sends, output, renders,
                 chatCalls, saveTimeout>>
  /\ UNCHANGED <<currentChatId, nextChatId>>
  /\ UNCHANGED <<renderVars, storeVars, timeVars>>

\* loadChat after the await: the chat found at the start becomes current
LoadChatResumes ==
  /\ pending # <<>>
  /\ Head(pending).fn = "loadChat"
  /\ pending' = Tail(pending)
  /\ currentChatId' = Head(pending).chat.id
  /\ conversation' = Head(pending).chat.conversation
  /\ stored' = saveChatHistory(chatHistory, currentChatId')
  /\ output' = renderFullConversation(output, conversation').output
  /\ renders' = Append(renders, RenderedFull(output, conversation'))
  /\ lastCall' = [fn |-> "loadChat resumed"]
  /\ UNCHANGED <<isOnline, disabled, prompt, chatHistory, sends, chatCalls,
                 saveTimeout, nextChatId>>
  /\ UNCHANGED <<renderVars, storeVars, timeVars>>

\* createNewChat to its await of updateCurrentChatInHistory
CreateNewChatAwaits ==
  /\ Len(renders) + Len(pending) < MaxChatOps
  /\ SavesFirst
  /\ pending' = Append(pending, Suspended("createNewChat", Chat(NoChat, <<>>)))
  /\ chatHistory' = updateCurrentChatInHistory(chatHistory, currentChatId, conversation)
  /\ stored' = saveChatHistory(chatHistory', currentChatId)
  /\ lastCall' = [fn |-> "updateCurrentChatInHistory"]
  /\ UNCHANGED <<isOnline, disabled, prompt, conversation, sends, output, renders,
                 chatCalls, saveTimeout>>
  /\ UNCHANGED <<currentChatId, nextChatId>>
  /\ UNCHANGED <<renderVars, storeVars, timeVars>>

\* createNewChat after the await: the new chat is made and becomes current
CreateNewChatResumes ==
  /\ pending # <<>>
  /\ Head(pending).fn = "createNewChat"
  /\ pending' = Tail(pending)
  /\ currentChatId' = nextChatId
  /\ nextChatId' = nextChatId + 1
  /\ conversation' = <<>>
  /\ chatHistory' = KeepNewest(<<Chat(nextChatId, <<>>)>> \o chatHistory)
  /\ stored' = saveChatHistory(chatHistory', nextChatId)
  /\ output' = renderFullConversation(output, <<>>).output
  /\ renders' = Append(renders, RenderedFull(output, <<>>))
  /\ lastCall' = [fn |-> "createNewChat resumed"]
  /\ UNCHANGED <<isOnline, disabled, prompt, sends, chatCalls, saveTimeout>>
  /\ UNCHANGED <<renderVars, storeVars, timeVars>>

\* a click handled to its end at once: no handler is suspended, or this one
\* sets currentChatId before its first await
NewChatAtOnce == (pending = <<>> \/ ~SavesFirst) /\ CreateNewChat
ChatLoadedAtOnce == (pending = <<>> \/ ~SavesFirst) /\ LoadChat
ChatDeletedAtOnce == (pending = <<>> \/ Len(chatHistory) > 1) /\ DeleteChat
ChatClearedAtOnce == pending = <<>> /\ ClearCurrentChat
FileLoadedAtOnce == pending = <<>> /\ ChatLoadFromFile

NextAwaits ==
  \/ Undisturbed /\ LoadChatAwaits
  \/ Undisturbed /\ CreateNewChatAwaits
  \/ Undisturbed /\ NewChatAtOnce
  \/ Undisturbed /\ ChatLoadedAtOnce
  \/ Undisturbed /\ ChatDeletedAtOnce
  \/ Undisturbed /\ ChatClearedAtOnce
  \/ Undisturbed /\ FileLoadedAtOnce
  \/ LoadChatResumes
  \/ CreateNewChatResumes

SpecAwaits == InitChats /\ [][NextAwaits]_vars

(***************************************************************************)
(* autoSave and its timer.  Time goes in ticks of half a second; a timer   *)
(* runs its callback when its delay has passed, or later.  The callback is *)
(* taken as one step, with the way the storage ends the first setItem: it  *)
(* resolves, it rejects, or the exception of setMemoryStorage leaves the   *)
(* onerror handler of the request and the promise is never settled.        *)
(***************************************************************************)
Delay == 2
MaxTime == 5
MaxAutoSaves == 3

Timer(set) == [set |-> set, state |-> "live", at |-> 0, outcome |-> "none"]

\* clearTimeout(saveTimeout): the handle is that of the last timer made
clearTimeout(ts) ==
  IF ts # <<>> /\ ts[Len(ts)].state = "live"
  THEN [ts EXCEPT ![Len(ts)].state = "cleared"]
  ELSE ts

\* the timers after autoSave() at time t
autoSave(ts, t) == Append(clearTimeout(ts), Timer(t))

Live(ts) == {k \in 1..Len(ts) : ts[k].state = "live"}

\* how setItem ends when its request ends as r
setItemEnds(r) ==
  IF initDB = Null
  THEN IF setMemoryStorageThrows THEN "rejected" ELSE "resolved"
  ELSE IF r = "success" THEN "resolved"
  ELSE IF ~setMemoryStorageThrows THEN "resolved"
  ELSE IF r = "error" THEN "pending"
  ELSE "rejected"

\* a call of autoSave()
AutoSave ==
  /\ Len(timers) < MaxAutoSaves
  /\ timers' = autoSave(timers, now)
  /\ saveTimeout' = TRUE
  /\ UNCHANGED now
  /\ UNCHANGED <<isOnline, disabled, prompt, conversation, chatHistory, sends, output,
                 renders, chatCalls, stored>>
  /\ UNCHANGED <<renderVars, storeVars, chatVars>>

\* half a second passes
TimePasses ==
  /\ now < MaxTime
  /\ now' = now + 1
  /\ UNCHANGED timers
  /\ UNCHANGED <<renderVars, storeVars, pageVars, chatVars>>

\* the callback of a timer: enforceContextLimits, setItem of the
\* conversation and saveChatHistory, in a try block; the request of the
\* first setItem ends as r and those of saveChatHistory as q
SaveRuns ==
  /\ \E k \in Live(timers), r \in RequestEnds, q \in RequestEnds :
       LET first == setItemEnds(r)
           ends == IF first = "resolved" THEN setItemEnds(q) ELSE first
       IN  /\ now >= timers[k].set + Delay
           /\ conversation' = enforceContextLimits(conversation)
           /\ stored' = IF first # "resolved" THEN stored
                        ELSE IF ends # "resolved"
                        THEN [stored EXCEPT !.conversation = conversation']
                        ELSE [saveChatHistory(chatHistory, currentChatId)
                              EXCEPT !.conversation = conversation']
           /\ timers' = [timers EXCEPT
                           ![k].state = "fired",
                           ![k].at = now,
                           ![k].outcome = CASE ends = "resolved" -> "saved"
                                            [] ends = "rejected" -> "caught"
                                            [] ends = "pending" -> "escaped"]
           /\ saveTimeout' = (Live(timers') # {})
  /\ db' = initDB
  /\ UNCHANGED now
  /\ UNCHANGED <<indexedDB, objectStore, memoryStorage, localStorage, storageFull, ops>>
  /\ UNCHANGED <<isOnline, disabled, prompt, chatHistory, sends, output, renders,
                 chatCalls>>
  /\ UNCHANGED <<renderVars, chatVars>>

\* the page after DOMContentLoaded, loaded from one stored chat
InitAutoSave ==
  /\ RenderIdle
  /\ indexedDB \in {"missing", "fails", "works"}
  /\ db = Null
  /\ objectStore = Empty(Undefined)
  /\ memoryStorage = Empty(Undefined)
  /\ localStorage = Empty(Null)
  /\ storageFull \in BOOLEAN
  /\ ops = <<>>
  /\ isOnline = TRUE
  /\ disabled = FALSE
  /\ prompt = <<>>
  /\ conversation \in {<<>>, Numbered(2, Alternating), Numbered(22, Alternating)}
  /\ chatHistory = <<Chat(1, conversation)>>
  /\ currentChatId = 1
  /\ nextChatId = 2
  /\ lastCall = NoCall
  /\ pending = <<>>
  /\ sends = <<>>
  /\ output = renderFullConversation(<<>>, conversation).output
  /\ renders = <<>>
  /\ chatCalls = 0
  /\ saveTimeout = FALSE
  /\ stored = [conversation |-> Null, chatHistory |-> chatHistory, currentChatId |-> 1]
  /\ timers = <<>>
  /\ now = 0

NextAutoSave == AutoSave \/ TimePasses \/ SaveRuns

SpecAutoSave == InitAutoSave /\ [][NextAutoSave]_vars

(***************************************************************************)
(* Properties                                                              *)
(***************************************************************************)
\* the characters of an output: every tag written out
Text(h) ==
  Flatten([k \in 1..Len(h) |->
             IF h[k] = Tick THEN <<Tick>>
             ELSE [j \in 1..Len(h[k]) |-> SubSeq(h[k], j, j)]])

\* h holds the tag
Has(h, tag) == \E k \in 1..Len(h) : h[k] = tag

CodeBlockOpen == "<div class=\"code-block-wrapper\">"

\* C1: two calls of parseMarkdown on the same text return the same output,
\* whatever was rendered in between
C1_SameTextSameOutput ==
  \A i, j \in 1..Len(rendered) :
    rendered[i].text = rendered[j].text => rendered[i].html = rendered[j].html

\* a text with an inline code span followed by text shaped like the next
\* placeholder has been rendered twice, to the same output
C1_Witness ==
  /\ Len(rendered) = 2
  /\ rendered[1].text = Str("^a^__INLINECODE_1__")
  /\ rendered[2].text = rendered[1].text
  /\ rendered[2].html = <<"<p>", InlineCodeOpen, "a", "</code>">>
                          \o Str("__INLINECODE_1__") \o <<"</p>">>

\* C2: an input that contains <script> is rendered without the raw
\* substring <script> and with &lt;script&gt;
C2_ScriptEscaped ==
  (pc = "done" /\ Contains(text, Str("<script>")))
    => /\ ~Contains(Text(html), Str("<script>"))
       /\ Contains(Text(html), Str("&lt;script&gt;"))

\* C3: a closed fence with a tag outside the allow-list yields no code block,
\* and its backticks and tag stay in the output as text
C3_UnknownTagStaysText ==
  \A tag \in UnknownTags, body \in Bodies :
    (pc = "done" /\ text = Fenced(tag, body, Fence))
      => /\ ~Has(html, CodeBlockOpen)
         /\ ~Has(html, PreOpen)
         /\ Contains(html, Fence \o tag)

\* an opening fence that no later fence closes
UnclosedFence(t) ==
  /\ FindFrom(t, 1, Fence) # 0
  /\ FindFrom(t, FindFrom(t, 1, Fence) + Len(Fence), Fence) = 0

\* C4: a text whose opening fence is never closed yields neither a code block
\* nor an inline code element, and its backticks stay in the output as text
C4_UnclosedFenceStaysText ==
  (pc = "done" /\ UnclosedFence(text))
    => /\ ~Has(html, CodeBlockOpen)
       /\ ~Has(html, InlineCodeOpen)
       /\ Contains(html, Fence)

\* a body without its leading and trailing newlines
TrimBlankLines(b) ==
  LET inner == {k \in 1..Len(b) : b[k] # NL}
  IN IF inner = {} THEN <<>> ELSE SubSeq(b, Min(inner), Max(inner))

\* C5: a closed fence with an allow-listed tag yields the escaped, trimmed body
\* in <pre class="code-block"><code class="language-tag">, tag in lower case,
\* and no fence marker
C5_KnownFenceBecomesCodeBlock ==
  \A tag \in KnownTags, body \in Bodies :
    (pc = "done" /\ text = Fenced(tag, body, Fence))
      => /\ Contains(html, <<PreOpen, CodeOpen>> \o toLowerCase(tag) \o <<"\">">>
                             \o escapeHtml(TrimBlankLines(body))
                             \o <<"</code>", "</pre>">>)
         /\ ~Contains(html, Fence)

\* the alignment a separator mark gives its column
MarkAlignment(marks, k) ==
  IF k > Len(marks) THEN "left"
  ELSE IF Head(marks[k]) = ":" /\ marks[k][Len(marks[k])] = ":" THEN "center"
  ELSE IF marks[k][Len(marks[k])] = ":" THEN "right"
  ELSE "left"

\* the row element of a row given by its cells
RowElement(tag, cells, marks) ==
  <<"<tr>">>
    \o Flatten([k \in 1..Len(cells) |->
                  <<CellOpen(tag, MarkAlignment(marks, k))>> \o escapeHtml(cells[k])
                    \o <<CellClose(tag)>>])
    \o <<"</tr>">>

\* the table element of header rows, separator marks and body rows
TableElement(headers, marks, bodies) ==
  <<"<div class=\"table-wrapper\">", "<table>", "<thead>">>
    \o Flatten([k \in 1..Len(headers) |-> RowElement("th", headers[k], marks)])
    \o <<"</thead>", "<tbody>">>
    \o Flatten([k \in 1..Len(bodies) |-> RowElement("td", bodies[k], marks)])
    \o <<"</tbody>", "</table>", "</div>">>

\* C6: header rows, one separator row and body rows are rendered as one table
\* with the header cells in <thead> and the body cells in <tbody>, in order
C6_TableHoldsCells ==
  \A hs \in SeqsUpTo(HeaderRowChoices, MaxRows) \ {<<>>},
     marks \in SeparatorChoices \ {<<>>},
     bs \in SeqsUpTo(BodyRowChoices, MaxRows) \ {<<>>} :
    (pc = "done" /\ text = TableText(hs, marks, bs))
      => html = <<"<p>">> \o TableElement(hs, marks, bs) \o <<"</p>">>

\* a line with only spaces, dashes, colons and pipes between its outer pipes
PureSeparatorRow(line) ==
  /\ Len(line) >= 2
  /\ Head(line) = "|"
  /\ line[Len(line)] = "|"
  /\ \A k \in 2..(Len(line) - 1) : line[k] \in {" ", "-", ":", "|"}

\* every line of t starts and ends with a pipe
PipedLines(t) ==
  \A k \in 1..Len(split(t, NL)) :
    /\ split(t, NL)[k] # <<>>
    /\ Head(split(t, NL)[k]) = "|"
    /\ split(t, NL)[k][Len(split(t, NL)[k])] = "|"

HasSeparatorRow(lines) == \E k \in 1..Len(lines) : PureSeparatorRow(trim(lines[k]))

\* C7: a block is taken as a table only if one of its lines is a pure
\* separator row; piped lines without one yield no table and keep their pipes
C7_NoSeparatorNoTable ==
  pc = "done"
    => /\ \A k \in 1..Len(tables) : HasSeparatorRow(tables[k])
       /\ (PipedLines(text) /\ ~HasSeparatorRow(split(text, NL)))
            => /\ tables = <<>>
               /\ ~Has(html, "<table>")
               /\ Has(html, "|")

\* the lone line | just | some | text | has been rendered as a paragraph
C7_Witness ==
  /\ pc = "done"
  /\ text = Str("| just | some | text |")
  /\ tables = <<>>
  /\ html = <<"<p>">> \o text \o <<"</p>">>

\* C8: **bold *and italic* text** is rendered as a <strong> element that
\* holds an <em> element around "and italic"
C8_BoldHoldsItalic ==
  (pc = "done" /\ text = Str("**bold *and italic* text**"))
    => \E i, j \in 1..Len(html) :
         /\ i < j
         /\ html[i] = "<strong>"
         /\ html[j] = "</strong>"
         /\ Contains(SubSeq(html, i, j), <<"<em>">> \o Str("and italic") \o <<"</em>">>)

\* a value that is a string
IsString(v) == v # Null /\ v # Undefined /\ \A k \in 1..Len(v) : v[k] # ""

\* C9: parseMarkdown returns a string for every string, and the empty string
\* for the empty string
C9_Total ==
  pc = "done" => /\ IsString(html)
                 /\ text = <<>> => html = <<>>

\* the empty text has been rendered
C9_Witness ==
  /\ pc = "done"
  /\ rendered = <<[text |-> <<>>, html |-> <<>>]>>

\* the entity of a character
Entity(c) ==
  CASE c = "&" -> Str("&amp;")
    [] c = "<" -> Str("&lt;")
    [] c = ">" -> Str("&gt;")
    [] c = "\"" -> Str("&quot;")
    [] c = "'" -> Str("&#039;")
    [] OTHER -> <<c>>

\* C10: escapeHtml replaces each of & < > " ' by its entity, once, leaves
\* every other character, and returns the empty string for null, undefined
\* and the empty string
C10_EscapesFiveCharactersOnce ==
  pc = "escaped"
    => html = IF text \in {Null, Undefined, <<>>} THEN <<>>
              ELSE Flatten([k \in 1..Len(text) |-> Entity(text[k])])

\* a text with < before & has been escaped
C10_Witness ==
  /\ pc = "escaped"
  /\ text = Str("<&a")
  /\ html = Str("&lt;&amp;a")

\* C11: text typed by the user in the shape of a placeholder is never
\* replaced by a protected region: it is still in the output
C11_TypedSentinelKept ==
  \A s \in Sentinels :
    (pc = "done" /\ Contains(text, s)) => Contains(html, s)

\* payloads without backticks or placeholder shapes
PlainPayloads ==
  {Str("<script>"), Str("$<script>"), Str("x"), Str("$&"), Str("$$"), Str("$'"),
   Str("a&b")}

\* an entity whose ampersand was escaped again
DoubleEscapes ==
  {Str("&amp;amp;"), Str("&amp;lt;"), Str("&amp;gt;"), Str("&amp;quot;"),
   Str("&amp;#039;")}

CodeElement(block) ==
  <<PreOpen, CodeOpen>> \o block.language \o <<"\">">> \o escapeHtml(block.code)
    \o <<"</code>", "</pre>">>

\* C13: the <code> element of every accepted fenced block holds exactly
\* escapeHtml of the stored trimmed body, whatever the body
C13_CodeBlockVerbatim ==
  pc = "done" => \A k \in 1..Len(codeBlocks) : Contains(html, CodeElement(codeBlocks[k]))

\* the user typed nothing in the shape of a placeholder
NoTypedSentinel(t) ==
  \A kind \in {CODEBLOCK, INLINECODE, TABLE} : ~Contains(t, kind)

\* C14: when parseMarkdown returns, no placeholder it created is left in the
\* output: not of an inline code (in a table cell or elsewhere), not of a
\* table, not of a code block
C14_NoSentinelLeft ==
  (pc = "done" /\ NoTypedSentinel(text))
    => /\ \A i \in 0..(Len(inlineCodes) - 1) : ~Contains(html, Placeholder(INLINECODE, i))
       /\ \A i \in 0..(Len(tables) - 1) : ~Contains(html, Placeholder(TABLE, i))
       /\ \A i \in 0..(Len(codeBlocks) - 1) : ~Contains(html, Placeholder(CODEBLOCK, i))

\* C20: a run of list items written with digits and a dot is wrapped in
\* <ol>, a run written with -, + or * in <ul>
C20_ListContainer ==
  pc = "done"
    => /\ text \in OrderedTexts => (Has(html, "<ol>") /\ ~Has(html, "<ul>"))
       /\ text \in BulletTexts => (Has(html, "<ul>") /\ ~Has(html, "<ol>"))

\* C16: while initDB yields no database, getItem, setItem and removeItem
\* resolve; getItem after setItem of the same key returns the value set,
\* getItem after removeItem returns null
C16_FallbackTier ==
  db = Null
    => \A i \in 1..Len(ops) :
         /\ ops[i].outcome = "resolved"
         /\ (i > 1 /\ ops[i].op = "getItem" /\ ops[i - 1].key = ops[i].key)
              => /\ ops[i - 1].op = "setItem" => ops[i].result = ops[i - 1].value
                 /\ ops[i - 1].op = "removeItem" => ops[i].result = Null
\* the parts of a stream that carry text
WithText(parts) == SelectSeq(parts, LAMBDA t : ~Falsy(t))

ProperPrefix(a, b) == Len(a) < Len(b) /\ SubSeq(b, 1, Len(a)) = a

\* C15: every stream part with non-empty text is appended to the reply and
\* renderReplyStreamUpdate is called with the whole accumulated reply: for
\* each send, the k-th text shown is the concatenation of the first k parts
\* with text, each text shown is a proper prefix of the next one, and the
\* assistant message pushed when the stream ends is the concatenation of
\* all the parts in arrival order
C15_WholeReplyShown ==
  \A i \in 1..Len(sends) :
    /\ Len(sends[i].shown) = Len(WithText(sends[i].parts))
    /\ \A k \in 1..Len(sends[i].shown) :
         sends[i].shown[k] = Flatten(SubSeq(WithText(sends[i].parts), 1, k))
    /\ \A k \in 1..(Len(sends[i].shown) - 1) :
         ProperPrefix(sends[i].shown[k], sends[i].shown[k + 1])
    /\ sends[i].pushed # Null =>
         /\ sends[i].pushed = Flatten(WithText(sends[i].parts))
         /\ \E k \in 1..Len(conversation) :
              conversation[k] = Message("assistant", sends[i].pushed)

C15_Witness ==
  \E i \in 1..Len(sends) :
    /\ Len(sends[i].shown) = 2
    /\ Len(sends[i].parts) = 2
    /\ sends[i].pushed = sends[i].shown[2]
    /\ \E k \in 1..Len(output) :
         output[k].container = i /\ output[k].text = sends[i].pushed


OfflineError ==
  Bubble("error",
         Str("You are currently offline. Please reconnect to send messages."), 0)

\* a step in which sendMessage starts while isOnline is false and the
\* prompt is not empty
OfflineSend ==
  Len(sends') = Len(sends) + 1 /\ ~isOnline /\ trim(prompt) # <<>>

\* C17: when sendMessage runs offline with a non-empty prompt, the error
\* notice is shown by showError, no message is appended to conversation,
\* the chat is not called, nothing is saved and no save is scheduled, and
\* the send has returned
C17_OfflineSendShortCircuits ==
  [][OfflineSend =>
       /\ output' = Append(output, OfflineError)
       /\ conversation' = conversation
       /\ chatCalls' = chatCalls
       /\ stored' = stored
       /\ saveTimeout' = saveTimeout
       /\ sends'[Len(sends')].pc = "returned"]_vars

C17_Witness ==
  \E i \in 1..Len(sends) :
    /\ sends[i].how = "offline"
    /\ ~isOnline
    /\ output # <<>>
    /\ output[Len(output)] = OfflineError


\* C19: sends are serialized: at most one sendMessage is between its start
\* and its finally block at any time, and the generate button is disabled
\* for as long as one is, whatever online and offline events arrive
C19_SendsSerialized ==
  /\ Cardinality(InFlight) <= 1
  /\ InFlight # {} => disabled


\* the error bubble showError appends for a caller-contract violation
ContractError(call) ==
  Bubble("error",
         IF call.fn = "renderReplyStreamUpdate"
         THEN (IF call.container = NoContainer
               THEN Str("Error updating stream display: Container element is null")
               ELSE Str("Error updating stream display: ") \o TypeErrorMessage)
         ELSE IF call.fn = "renderReplyStreamInit"
         THEN Str("Error initializing stream display: ") \o TypeErrorMessage
         ELSE Str("Error rendering conversation: ") \o TypeErrorMessage,
         0)

\* the call was given a null container, or found no #output
ContractViolated(call) ==
  \/ call.before = Missing
  \/ call.fn = "renderReplyStreamUpdate" /\ call.container = NoContainer

\* every message of the conversation has its bubble in #output, the error
\* bubble for one whose rendering failed
EveryMessageRendered(call) ==
  /\ Len(call.after) = Len(call.conversation)
  /\ \A k \in 1..Len(call.conversation) :
       IF call.conversation[k].content = BadContent
       THEN call.after[k].class = "error"
       ELSE call.after[k] =
              Bubble(call.conversation[k].role, call.conversation[k].content, 0)

\* C18: a null container given to renderReplyStreamUpdate, or a missing
\* #output in renderFullConversation or renderReplyStreamInit, is shown as
\* an error bubble by showError and no exception leaves the render
\* function; in renderFullConversation a message that fails to render does
\* not keep the other messages from being rendered
C18_ViolationsReported ==
  \A i \in 1..Len(renders) :
    /\ ~renders[i].escaped
    /\ ContractViolated(renders[i]) =>
         /\ renders[i].after # Missing
         /\ renders[i].after # <<>>
         /\ renders[i].after[Len(renders[i].after)] = ContractError(renders[i])
    /\ (renders[i].fn = "renderFullConversation" /\ renders[i].before # Missing) =>
         EveryMessageRendered(renders[i])

\* C18 with #output present: what holds of the code
C18_ReportedWithOutput ==
  \A i \in 1..Len(renders) :
    renders[i].before # Missing =>
      /\ ~renders[i].escaped
      /\ ContractViolated(renders[i]) =>
           /\ renders[i].after # <<>>
           /\ renders[i].after[Len(renders[i].after)] = ContractError(renders[i])
      /\ renders[i].fn = "renderFullConversation" =>
           EveryMessageRendered(renders[i])

\* C18 with #output missing: the exception of showError leaves every one
\* of the three render functions
C18_EscapesWithoutOutput ==
  \A i \in 1..Len(renders) :
    renders[i].before = Missing => renders[i].escaped /\ renders[i].after = Missing


\* C21: ![alt](url) becomes an <img> with that src and alt and lazy
\* loading, for every alt text, and never an anchor; [text](url) not after
\* a ! becomes an anchor with target="_blank" and rel="noopener noreferrer"
C21_ImagesAndLinks ==
  pc = "done" =>
    /\ \A alt \in ImageAlts :
         text \in Placed(ImageSpan(alt)) =>
           /\ Contains(html, ToImg([g1 |-> alt, g2 |-> Str("u.png")]))
           /\ ~Has(html, "<a href=\"")
    /\ text \in LinkTexts =>
         /\ Contains(html, ToAnchor([g1 |-> Str("t"), g2 |-> Str("u")]))
         /\ ~Has(html, "<img src=\"")


\* STEP 3 on a text that no earlier step has changed
SecondPassOn(t) ==
  ExtractInlineCodeSecond([text |-> t, codeBlocks |-> <<>>, inlineCodes |-> <<>>,
                           tables |-> <<>>])

CountOf(h, c) == Cardinality({k \in 1..Len(h) : h[k] = c})

\* C22: in the second inline-code pass a span of N backticks, content
\* without a backtick and N backticks is extracted as inline code exactly
\* when N is odd, and an even span is left as it is.  For each span text:
\* the pass on the text replaces an odd span by a placeholder holding the
\* content and returns an even span unchanged; and in the rendering, where
\* the span reaches the pass (one backtick around several lines, two
\* backticks), the odd span is an inline-code element and the even span
\* keeps its four backticks in the output with no inline-code element
C22_OddRunIsInlineCode ==
  pc = "done" =>
    \A n \in 1..MaxTicks, c \in SpanContents, pre \in SpanBefore, post \in SpanAfter :
      text = pre \o TickSpan(n, c) \o post =>
        /\ IF n % 2 = 1
           THEN /\ SecondPassOn(text).text = pre \o Placeholder(INLINECODE, 0) \o post
                /\ SecondPassOn(text).inlineCodes = <<c>>
           ELSE /\ SecondPassOn(text).text = text
                /\ SecondPassOn(text).inlineCodes = <<>>
        /\ (n = 1 /\ Contains(c, <<NL>>)) =>
             /\ inlineCodes = <<c>>
             /\ Contains(html, InlineCodeHtml(c))
             /\ CountOf(html, Tick) = 0
        /\ n = 2 =>
             /\ inlineCodes = <<>>
             /\ ~Has(html, InlineCodeOpen)
             /\ CountOf(html, Tick) = 4

C22_Witness ==
  /\ pc = "done"
  /\ text = Str("x ") \o TickSpan(1, Str("a\nb")) \o Str(" y")
  /\ inlineCodes = <<Str("a\nb")>>
  /\ html = <<"<p>", "x", " ">> \o InlineCodeHtml(Str("a\nb")) \o <<" ", "y", "</p>">>


\* C23: the separator row gives each column its alignment (a colon on both
\* sides center, a trailing colon right, else left) by position: a row with
\* fewer cells than the separator has marks gives that many cells, a cell
\* beyond the marks is left-aligned, and every row is rendered
C23_AlignmentByPosition ==
  \A h \in AlignRows, marks \in AlignMarks, b \in AlignRows :
    (pc = "done" /\ text = TableText(<<h>>, marks, <<b>>))
      => html = <<"<p>">> \o TableElement(<<h>>, marks, <<b>>) \o <<"</p>">>

C23_Witness ==
  /\ pc = "done"
  /\ text = Str("| a | b | c |\n|:-:|--:|\n| a |")
  /\ Contains(html,
       <<"<tr>", "<th style=\"text-align: center\">", "a", "</th>",
         "<th style=\"text-align: right\">", "b", "</th>",
         "<th style=\"text-align: left\">", "c", "</th>", "</tr>">>)
  /\ Contains(html,
       <<"<tbody>", "<tr>", "<td style=\"text-align: center\">", "a", "</td>", "</tr>",
         "</tbody>">>)


\* a table of one header row and one body row of two left-aligned cells,
\* given by the content of the cells
TwoByTwo(h1, h2, b1, b2) ==
  <<"<div class=\"table-wrapper\">", "<table>", "<thead>", "<tr>",
    "<th style=\"text-align: left\">">> \o h1 \o <<"</th>",
    "<th style=\"text-align: left\">">> \o h2 \o <<"</th>", "</tr>", "</thead>",
    "<tbody>", "<tr>",
    "<td style=\"text-align: left\">">> \o b1 \o <<"</td>",
    "<td style=\"text-align: left\">">> \o b2 \o <<"</td>", "</tr>", "</tbody>",
    "</table>", "</div>">>

\* C24: a | inside a single-backtick code span in a table row does not
\* split the cell: the row has the two cells it has without the span, and
\* the cell holds the span, with its |, in an inline-code element
C24_PipeInCodeKeepsCell ==
  pc = "done" =>
    \A c \in PipeCodes :
      /\ text = PipeInHeader(c) =>
           html = <<"<p>">>
                    \o TwoByTwo(InlineCodeHtml(c), Str("K"), Str("1"), Str("2"))
                    \o <<"</p>">>
      /\ text = PipeInBody(c) =>
           html = <<"<p>">>
                    \o TwoByTwo(Str("H"), Str("K"), InlineCodeHtml(c), Str("2"))
                    \o <<"</p>">>

C24_Witness ==
  /\ pc = "done"
  /\ text = PipeInBody(Str("x|y"))
  /\ inlineCodes = <<Str("x|y")>>
  /\ Contains(html, <<"<td style=\"text-align: left\">">> \o InlineCodeHtml(Str("x|y"))
                       \o <<"</td>", "<td style=\"text-align: left\">", "2", "</td>">>)


\* the closing tags of the block-level elements, and <hr>, which has none
BlockEndTags == BlockCloseTags \cup {"<hr>"}

\* C25: in the output no <br> stands directly before the opening tag of a
\* div, table, ul, ol, blockquote, h1 to h6, hr or pre, none directly after
\* such an element (a horizontal rule included), none directly after <p>
\* and none directly before </p>
C25_NoBreakNextToBlock ==
  pc = "done" =>
    \A k \in 1..Len(html) :
      html[k] = "<br>" =>
        /\ At(html, k + 1) \notin BlockOpenTags
        /\ At(html, k - 1) \notin BlockEndTags
        /\ At(html, k - 1) # "<p>"
        /\ At(html, k + 1) # "</p>"


(***************************************************************************)
(* The context limits                                                      *)
(***************************************************************************)
\* the place of message m in conv
PlaceIn(conv, m) == Min({k \in 1..Len(conv) : conv[k] = m})

\* kept holds messages of conv only, in the order they have in conv
KeepsOrder(kept, conv) ==
  /\ \A i \in 1..Len(kept) : \E k \in 1..Len(conv) : conv[k] = kept[i]
  /\ \A i, j \in 1..Len(kept) :
       i < j => PlaceIn(conv, kept[i]) < PlaceIn(conv, kept[j])

EnforceCalled == lastCall.fn = "enforceContextLimits"

\* C27: after any call of enforceContextLimits the conversation holds at
\* most MAX_TOTAL_MSGS messages, the messages kept are messages of the
\* conversation before the call in their order, the most recent message is
\* kept, and a conversation within the total limit is left as it was
C27_TotalLimitKeepsNewest ==
  EnforceCalled =>
    /\ Len(lastCall.after) <= MAX_TOTAL_MSGS
    /\ KeepsOrder(lastCall.after, lastCall.before)
    /\ lastCall.before # <<>> =>
         /\ lastCall.after # <<>>
         /\ lastCall.after[Len(lastCall.after)] = lastCall.before[Len(lastCall.before)]
    /\ Len(lastCall.before) <= MAX_TOTAL_MSGS => lastCall.after = lastCall.before

\* enforceContextLimits was called on a conversation over the total limit and
\* took messages away
C27_Witness ==
  /\ EnforceCalled
  /\ Len(lastCall.before) > MAX_TOTAL_MSGS
  /\ Len(lastCall.after) < Len(lastCall.before)
  /\ conversation = lastCall.after

\* C28: after any call of enforceContextLimits the conversation holds at
\* most MAX_USER_MSGS user messages and at most MAX_ASSISTANT_MSGS assistant
\* messages
C28_RoleLimitsHold ==
  EnforceCalled =>
    /\ CountRole(lastCall.after, "user") <= MAX_USER_MSGS
    /\ CountRole(lastCall.after, "assistant") <= MAX_ASSISTANT_MSGS

(***************************************************************************)
(* The chat list                                                           *)
(***************************************************************************)
ChatIds(history) == {history[k].id : k \in 1..Len(history)}

\* a step that is not a deletion or a page load takes no chat out of the
\* list but its last one, and not the chat that is current after the step
DropsLastOnly ==
  lastCall'.fn \notin {"deleteChat", "initializeData"} =>
    \A id \in ChatIds(chatHistory) \ ChatIds(chatHistory') :
      /\ id = chatHistory[Len(chatHistory)].id
      /\ id # currentChatId'

\* C26: chatHistory never holds more than 20 chats, and the chat dropped
\* when the cap is exceeded is the last chat of the list, never the current
\* chat
C26_AtMostTwentyChats ==
  /\ [](Len(chatHistory) <= MaxChats)
  /\ [][DropsLastOnly]_vars

\* a new chat was made in a full list: the last stored chat is gone and the
\* new chat is first and current
C26_Witness ==
  /\ lastCall.fn = "createNewChat"
  /\ Len(chatHistory) = MaxChats
  /\ MaxChats \notin ChatIds(chatHistory)
  /\ chatHistory[1].id = currentChatId

\* C29: after a confirmed deleteChat(id) chatHistory holds no chat of that id
C29_DeletedChatIsGone ==
  lastCall.fn = "deleteChat" => lastCall.id \notin ChatIds(chatHistory)

\* C30: loadChat(B) puts a non-empty current conversation into the entry of
\* the current chat and makes B current with the conversation of B's entry;
\* loadChat(B) followed by loadChat(A), A the chat that was current, gives
\* back the conversation A had before the first call
C30_SwitchBackRestores ==
  lastCall.fn = "loadChat" =>
    /\ currentChatId = lastCall.id
    /\ ChatIndex(chatHistory, lastCall.id) # 0
    /\ conversation = chatHistory[ChatIndex(chatHistory, lastCall.id)].conversation
    /\ (lastCall.from # NoChat /\ lastCall.from # lastCall.id /\ lastCall.had # <<>>) =>
         /\ ChatIndex(chatHistory, lastCall.from) # 0
         /\ chatHistory[ChatIndex(chatHistory, lastCall.from)].conversation = lastCall.had
    /\ (lastCall.prevFrom # NoChat /\ lastCall.id = lastCall.prevFrom) =>
         conversation = lastCall.prevHad

\* chat A with a conversation its entry did not hold yet, then loadChat(B)
\* of another chat, then loadChat(A)
C30_Witness ==
  /\ lastCall.fn = "loadChat"
  /\ lastCall.prevFrom = lastCall.id
  /\ lastCall.from # lastCall.id
  /\ lastCall.prevHad # <<>>
  /\ conversation = lastCall.prevHad
  /\ \E k \in 1..Len(stored.chatHistory) :
       /\ stored.chatHistory[k].id = lastCall.id
       /\ stored.chatHistory[k].conversation = lastCall.prevHad
  /\ chatCalls > 0

(***************************************************************************)
(* The button and the online status                                        *)
(***************************************************************************)
\* C35: while isOnline is false the generate button is disabled, in every
\* state between the offline event and the next online event
C35_DisabledWhileOffline == ~isOnline => disabled

(***************************************************************************)
(* Reads after writes in the storage                                       *)
(***************************************************************************)
\* no setItem or removeItem on the key of call i between calls i and j
NoWriteBetween(i, j) ==
  \A m \in (i + 1)..(j - 1) :
    ~(ops[m].key = ops[i].key /\ ops[m].op \in {"setItem", "removeItem"})

\* C34: a getItem(k) after a resolved setItem(k, v), with no setItem or
\* removeItem on k between them, returns v, and after a resolved
\* removeItem(k) it returns null, whichever tier served each call
C34_ReadYourWrites ==
  \A i, j \in 1..Len(ops) :
    (/\ i < j
     /\ ops[i].outcome = "resolved"
     /\ ops[i].op \in {"setItem", "removeItem"}
     /\ ops[j].op = "getItem"
     /\ ops[j].key = ops[i].key
     /\ NoWriteBetween(i, j))
    => ops[j].result = IF ops[i].op = "setItem" THEN ops[i].value ELSE Null

(***************************************************************************)
(* The chat a reply goes to                                                *)
(***************************************************************************)
\* the reply of turn i
ReplyOf(i) == Message("assistant", <<"r">> \o ToDigits(i))

Holds(conv, m) == \E k \in 1..Len(conv) : conv[k] = m

\* C33: the reply of a sendMessage call is pushed while the chat that was
\* current when the user message was sent is current, and no entry of
\* another chat holds it
C33_ReplyInSendersChat ==
  \A i \in 1..Len(sends) :
    /\ sends[i].replied => sends[i].repliedIn = sends[i].chat
    /\ \A k \in 1..Len(chatHistory) :
         Holds(chatHistory[k].conversation, ReplyOf(i)) =>
           chatHistory[k].id = sends[i].chat

(***************************************************************************)
(* The current chat and the chat list                                      *)
(***************************************************************************)
\* C32: whenever no handler is suspended and currentChatId is not null,
\* chatHistory holds exactly one chat of that id
C32_CurrentChatListedOnce ==
  (pending = <<>> /\ currentChatId # NoChat) =>
    Cardinality({k \in 1..Len(chatHistory) : chatHistory[k].id = currentChatId}) = 1

(***************************************************************************)
(* The auto-save                                                           *)
(***************************************************************************)
\* at most one timer is live; a timer is cleared only by a later call; a
\* callback runs a delay or more after its call, and every later call was
\* made after it ran
Debounced ==
  /\ Cardinality(Live(timers)) <= 1
  /\ \A k \in 1..Len(timers) :
       /\ timers[k].state = "cleared" => k < Len(timers)
       /\ timers[k].state = "fired" =>
            /\ timers[k].at >= timers[k].set + Delay
            /\ \A j \in (k + 1)..Len(timers) : timers[j].set >= timers[k].at

\* a callback that saved left the conversation within the limit and stored
\* it with the chat list and the id of the current chat
SavedWhole ==
  (\E k \in 1..Len(timers) : timers[k].outcome = "saved") =>
    /\ Len(conversation) <= MAX_TOTAL_MSGS
    /\ stored.conversation = conversation
    /\ stored.chatHistory = chatHistory
    /\ stored.currentChatId = currentChatId

\* no exception of a callback is left uncaught
ErrorsCaught == \A k \in 1..Len(timers) : timers[k].outcome # "escaped"

\* C31: autoSave is debounced: at most one save is pending, the save of a
\* burst of calls runs once, a second or more after the last call, it
\* enforces the limits and stores the conversation and the chats, and an
\* error during the save is caught
C31_DebouncedSave == Debounced /\ SavedWhole /\ ErrorsCaught

====
